---- MODULE Spec2Model ----
(***************************************************************************)
(* Model of the room concurrency engine of collab-editor:                  *)
(*   - RoomManager.GetOrCreateRoom        (pkg/room/room.go)               *)
(*   - Room.run, the per-room actor loop  (pkg/room/room.go)               *)
(*   - Room.BroadcastOperation            (pkg/room/room.go)               *)
(*   - Handlers.HandleWebSocket, readPump, writePump, handleOperation,     *)
(*     updateDocumentContent              (pkg/handlers/handlers.go)       *)
(* Goroutines are modelled as processes with a program counter; a step of  *)
(* a process is one statement (or one critical section) of the source.     *)
(***************************************************************************)
EXTENDS Integers, Sequences, FiniteSets, TLC

(***************************************************************************)
(* Bounds of the model.                                                    *)
(***************************************************************************)
\* concurrent callers of GetOrCreateRoom
NumCallers == 3
\* distinct room keys the callers ask for
NumKeys == 2

\* connections attached to the modelled room
NumConn == 2
\* inbound operation frames the model lets the clients send, in total
MaxOps == 1
\* capacity of Client.Send (handlers.go:74 makes it 256), scaled down
SendCap == 1
\* capacity of Room.Broadcast (room.go:79 makes it 256), scaled down
BroadcastCap == 1
\* capacity of Room.Register (room.go:80 makes it 10), scaled down
RegisterCap == 1
\* capacity of Room.Unregister (room.go:81 makes it 10), scaled down
UnregisterCap == 1

\* longest cached content the sequential dispatch starts from
MaxLen == 2
\* operation frames dispatched one after another
MaxSeqOps == 2
NumMembers == 3
MaxFrames == 2
\* members of the room in which the order of delivery is checked
NumPeers == 4

Callers == 1..NumCallers
Keys == 1..NumKeys
Conns == 1..NumConn
\* the key of the modelled room
TheRoom == 1
\* identity of the Room Actor goroutine among the holders of Room.mutex
Actor == 0

NoOne == 0
\* the nil *Room and the nil *Document
NoDoc == <<"nil", 0>>
NoRoom == [ID |-> 0, nth |-> 0, Document |-> NoDoc]

VARIABLES
  \* ---- RoomManager (room.go:44-48) ----
  rooms,      \* rm.rooms: key -> Room object or NoRoom
  rmMutex,    \* rm.mutex: the caller holding it, or NoOne
  made,       \* history: key -> number of Room objects ever stored under it
  runs,       \* history: key -> number of `go room.run()` started for it
  uuids,      \* number of ids drawn by uuid.New() in CreateDocument
  \* ---- one GetOrCreateRoom call per caller ----
  gcPc,       \* position of the caller inside GetOrCreateRoom
  gcKey,      \* its roomID argument
  gcDoc,      \* its local `doc`
  gcRoom,     \* its local `room`
  gcRet,      \* the *Room the call returned (NoRoom: nil)
  gcErr,      \* the error it returned: "pending" (no return yet), "nil", "err"
  \* ---- the Room (room.go:33-41) ----
  Clients,    \* r.Clients: the membership set (the keys of the map)
  Broadcast,  \* r.Broadcast: queue of frames
  Register,   \* r.Register: queue of connections
  Unregister, \* r.Unregister: queue of connections
  rwReaders,  \* r.mutex: the goroutines holding it for reading
  docContent, \* r.Document.Content
  docVersion, \* r.Document.Version
  \* ---- the Room Actor goroutine, Room.run ----
  actorPc,    \* its position in run
  actorArg,   \* its local `client`
  actorMsg,   \* its local `message`
  actorTodo,  \* members its range loop has not produced yet
  fatal,      \* the process died: unrecovered panic or runtime fatal error
  \* ---- one Client per connection (room.go:24-30) ----
  Send,       \* client.Send: queue of frames
  closeCalls, \* number of close(client.Send) executed
  connClosed, \* client.Conn has been closed by a pump
  hwPc,       \* position of HandleWebSocket for this connection
  rpPc,       \* position of its readPump
  rpOp,       \* readPump's local `operation`
  rpTodo,     \* members BroadcastOperation's range loop has not produced yet
  rpCur,      \* BroadcastOperation's local `client`
  rpLocal,    \* updateDocumentContent's local `content`
  wpPc,       \* position of its writePump
  opsLeft,    \* operation frames the clients may still send
  \* ---- history ----
  gone,       \* the actor has processed an Unregister for it, or it was
              \* removed for a full queue
  leftSent,   \* number of user_left frames for it put on r.Broadcast
  bcMembers,  \* r.Clients when the current Broadcast frame was taken
  bcGot,      \* members the current Broadcast frame was enqueued for
  \* ---- the rest of the cached Document and of readPump's frame handlers ----
  docTitle,   \* r.Document.Title
  docLanguage,\* r.Document.Language
  rpMsg,      \* readPump's local `msg` for the frames that are not operations
  rpVer,      \* the value of r.Document.Version loaded by Version++
  \* ---- history of the frame handlers ----
  rpGot,      \* members the frame being handled was enqueued for
  rpStoreErr, \* Store.UpdateDocument failed for the frame being handled
  accepted,   \* number of accepted mutations whose handler has completed
  acks,       \* per connection, the seq of each ack frame enqueued for it
  hInit,      \* the cached content before the first dispatched operation
  hOps,       \* the operations dispatched one after another, in order
  hPrev,      \* the cached content when the last of them was dispatched
  hPrevVer,   \* the version when the last of them was dispatched
  \* ---- the identity handleInit binds (handlers.go:246-247) ----
  ident,      \* per connection, client.ClientID and client.Username
  hLog        \* history, kept where the order of delivery is checked: per
              \* connection, the frames enqueued for it, in order

regVars == <<rooms, rmMutex, made, runs, uuids, gcPc, gcKey, gcDoc, gcRoom, gcRet, gcErr>>

roomVars == <<Clients, Broadcast, Register, Unregister, rwReaders, docContent,
              docVersion, actorPc, actorArg, actorMsg, actorTodo, fatal,
              Send, closeCalls, connClosed, hwPc, rpPc, rpOp, rpTodo, rpCur,
              rpLocal, wpPc, opsLeft, gone, leftSent, bcMembers, bcGot,
              docTitle, docLanguage, rpMsg, rpVer, rpGot, rpStoreErr,
              accepted, acks, hInit, hOps, hPrev, hPrevVer, ident, hLog>>

\* the variables of the metadata and snapshot handlers, and the histories
metaVars == <<docTitle, docLanguage, rpMsg, rpStoreErr, acks>>
seqHist == <<hInit, hOps, hPrev, hPrevVer>>

(***************************************************************************)
(* RoomManager.GetOrCreateRoom                                             *)
(***************************************************************************)

\* A registry whose lock excludes nobody: what GetOrCreateRoom would be
\* without rm.mutex.
MutexFreeNoExclusion(holder) == TRUE

\* rm.mutex.Lock() succeeds only when nobody holds the mutex.
MutexFree(holder) == holder = NoOne

\* The Room literal of room.go:75-82, identified by its key and by the
\* ordinal of its creation under that key; Document is the id of `doc`.
NewRoom(k, n, doc) == [ID |-> k, nth |-> n, Document |-> doc]

\* The id of the document GetDocument(roomID) returns: WHERE id = $1.
StoredDoc(k) == <<"doc", k>>

\* The id CreateDocument gives a new document: uuid.New().
FreshDoc(n) == <<"uuid", n>>

RegInit ==
  /\ rooms = [k \in Keys |-> NoRoom]
  /\ rmMutex = NoOne
  /\ made = [k \in Keys |-> 0]
  /\ runs = [k \in Keys |-> 0]
  /\ uuids = 0
  /\ gcPc = [p \in Callers |-> "idle"]
  /\ gcKey = [p \in Callers |-> 1]
  /\ gcDoc = [p \in Callers |-> NoDoc]
  /\ gcRoom = [p \in Callers |-> NoRoom]
  /\ gcRet = [p \in Callers |-> NoRoom]
  /\ gcErr = [p \in Callers |-> "pending"]

\* A caller (HandleWebSocket or GetRoomUsers) enters GetOrCreateRoom(k).
GetOrCreateRoomCall(p, k) ==
  /\ gcPc[p] = "idle"
  /\ gcPc' = [gcPc EXCEPT ![p] = "lock"]
  /\ gcKey' = [gcKey EXCEPT ![p] = k]
  /\ UNCHANGED <<rooms, rmMutex, made, runs, uuids, gcDoc, gcRoom, gcRet, gcErr>>
  /\ UNCHANGED roomVars

\* room.go:60  rm.mutex.Lock()
GetOrCreateRoomLock(p) ==
  /\ gcPc[p] = "lock"
  /\ MutexFree(rmMutex)
  /\ rmMutex' = p
  /\ gcPc' = [gcPc EXCEPT ![p] = "lookup"]
  /\ UNCHANGED <<rooms, made, runs, uuids, gcKey, gcDoc, gcRoom, gcRet, gcErr>>
  /\ UNCHANGED roomVars

\* room.go:63-64  room, exists := rm.rooms[roomID]; if !exists {...}
GetOrCreateRoomLookup(p) ==
  /\ gcPc[p] = "lookup"
  /\ gcRoom' = [gcRoom EXCEPT ![p] = rooms[gcKey[p]]]
  /\ gcPc' = [gcPc EXCEPT ![p] =
                IF rooms[gcKey[p]] = NoRoom THEN "fetch" ELSE "return"]
  /\ UNCHANGED <<rooms, rmMutex, made, runs, uuids, gcKey, gcDoc, gcRet, gcErr>>
  /\ UNCHANGED roomVars

\* a registry that goes on to build the Room after both store calls failed
AfterStoreErrorBuilds == "store"

\* room.go:70-72  if err != nil { return nil, err }
AfterStoreError == "return"

\* room.go:66-73  GetDocument, on error CreateDocument, on error return it.
\* The store is external: each call may succeed or fail.
GetOrCreateRoomFetch(p) ==
  /\ gcPc[p] = "fetch"
  /\ \/ \* GetDocument(roomID) found the document
        /\ gcDoc' = [gcDoc EXCEPT ![p] = StoredDoc(gcKey[p])]
        /\ gcPc' = [gcPc EXCEPT ![p] = "store"]
        /\ UNCHANGED <<uuids, gcErr>>
     \/ \* GetDocument failed, CreateDocument succeeded
        /\ uuids' = uuids + 1
        /\ gcDoc' = [gcDoc EXCEPT ![p] = FreshDoc(uuids + 1)]
        /\ gcPc' = [gcPc EXCEPT ![p] = "store"]
        /\ UNCHANGED gcErr
     \/ \* both failed: return nil, err (the deferred Unlock runs next)
        /\ gcErr' = [gcErr EXCEPT ![p] = "err"]
        /\ gcPc' = [gcPc EXCEPT ![p] = AfterStoreError]
        /\ UNCHANGED <<uuids, gcDoc>>
  /\ UNCHANGED <<rooms, rmMutex, made, runs, gcKey, gcRoom, gcRet>>
  /\ UNCHANGED roomVars

\* room.go:75-85  build the Room, store it, go room.run()
GetOrCreateRoomStore(p) ==
  /\ gcPc[p] = "store"
  /\ LET k == gcKey[p]
         r == NewRoom(k, made[k] + 1, gcDoc[p])
     IN /\ rooms' = [rooms EXCEPT ![k] = r]
        /\ made' = [made EXCEPT ![k] = @ + 1]
        /\ runs' = [runs EXCEPT ![k] = @ + 1]
        /\ gcRoom' = [gcRoom EXCEPT ![p] = r]
  /\ gcPc' = [gcPc EXCEPT ![p] = "return"]
  /\ UNCHANGED <<rmMutex, uuids, gcKey, gcDoc, gcRet, gcErr>>
  /\ UNCHANGED roomVars

\* room.go:61,88  return room, nil with the deferred rm.mutex.Unlock()
GetOrCreateRoomReturn(p) ==
  /\ gcPc[p] = "return"
  /\ rmMutex' = IF rmMutex = p THEN NoOne ELSE rmMutex
  /\ gcRet' = [gcRet EXCEPT ![p] = IF gcErr[p] = "err" THEN NoRoom ELSE gcRoom[p]]
  /\ gcErr' = [gcErr EXCEPT ![p] = IF @ = "err" THEN "err" ELSE "nil"]
  /\ gcPc' = [gcPc EXCEPT ![p] = "done"]
  /\ UNCHANGED <<rooms, made, runs, uuids, gcKey, gcDoc, gcRoom>>
  /\ UNCHANGED roomVars

RegNext ==
  \E p \in Callers :
    \/ \E k \in Keys : GetOrCreateRoomCall(p, k)
    \/ GetOrCreateRoomLock(p)
    \/ GetOrCreateRoomLookup(p)
    \/ GetOrCreateRoomFetch(p)
    \/ GetOrCreateRoomStore(p)
    \/ GetOrCreateRoomReturn(p)

(***************************************************************************)
(* The Room: Room.run, BroadcastOperation, and the pumps of a connection   *)
(***************************************************************************)

vars == <<regVars, roomVars>>

NoOp == [type |-> "none", position |-> 0, content |-> <<>>, length |-> 0]

\* handlers.go:48, 69-70  the identity a new Client starts with: both empty
NoIdentity == [clientID |-> "", username |-> ""]

\* no frame in readPump's `msg`
NoMsg == [type |-> "none", title |-> "", language |-> "", content |-> <<>>, seq |-> 0]

\* The operations the model's clients send (handleOperation's room.Operation).
\* Position and Length are Go ints taken from the frame unchecked: a negative
\* position is an input the clients can send.
OpInputs ==
  { [type |-> "insert", position |-> 0, content |-> <<"a">>, length |-> 0],
    [type |-> "delete", position |-> -1, content |-> <<>>, length |-> 1] }

\* room.go:140-148, 154-162: the user_joined / user_left frame of a client.
UserFrame(t, c) == [type |-> t, user |-> c, op |-> NoOp]

\* room.go:168-173: the operation frame; ClientID is the sender (handlers.go:227).
OperationFrame(c, o) == [type |-> "operation", user |-> c, op |-> o]

\* A channel is closed once close() has been called on it.
IsClosed(c) == closeCalls[c] > 0

\* Go's s[lo:hi] on a string: defined for 0 <= lo <= hi <= len(s).
SliceOk(s, lo, hi) == 0 <= lo /\ lo <= hi /\ hi <= Len(s)
Slice(s, lo, hi) == SubSeq(s, lo + 1, hi)

\* handlers.go:346-361: does applying the operation panic (slice out of range)?
UpdatePanics(content, o) ==
  CASE o.type = "insert" ->
         /\ ~(o.position >= Len(content))
         /\ ~SliceOk(content, 0, o.position)
    [] o.type = "delete" ->
         /\ o.position + o.length <= Len(content)
         /\ \/ ~SliceOk(content, 0, o.position)
            \/ ~SliceOk(content, o.position + o.length, Len(content))
    [] OTHER -> FALSE

\* updateDocumentContent with a delete case that never assigns the content.
UpdateWritesInsertOnly(content, o) == o.type = "insert"

\* handlers.go:346-361: does updateDocumentContent assign
\* room.Document.Content (an insert always, a delete only when it fits)?
UpdateWrites(content, o) ==
  \/ o.type = "insert"
  \/ o.type = "delete" /\ o.position + o.length <= Len(content)

\* updateDocumentContent with an insert that ignores the position.
UpdatedContentAppendOnly(content, o) ==
  CASE o.type = "insert" -> content \o o.content
    [] o.type = "delete" ->
         IF o.position + o.length <= Len(content)
           THEN Slice(content, 0, o.position)
                  \o Slice(content, o.position + o.length, Len(content))
           ELSE content
    [] OTHER -> content

\* updateDocumentContent with a delete that keeps the last character of the
\* range.
UpdatedContentDeleteShort(content, o) ==
  CASE o.type = "insert" ->
         IF o.position >= Len(content)
           THEN content \o o.content
           ELSE Slice(content, 0, o.position) \o o.content
                  \o Slice(content, o.position, Len(content))
    [] o.type = "delete" ->
         IF o.position + o.length <= Len(content)
           THEN IF o.length > 0
                  THEN Slice(content, 0, o.position)
                         \o Slice(content, o.position + o.length - 1, Len(content))
                  ELSE content
           ELSE content
    [] OTHER -> content

\* handlers.go:346-361: the content updateDocumentContent stores.
UpdatedContent(content, o) ==
  CASE o.type = "insert" ->
         IF o.position >= Len(content)
           THEN content \o o.content
           ELSE Slice(content, 0, o.position) \o o.content
                  \o Slice(content, o.position, Len(content))
    [] o.type = "delete" ->
         IF o.position + o.length <= Len(content)
           THEN Slice(content, 0, o.position)
                  \o Slice(content, o.position + o.length, Len(content))
           ELSE content
    [] OTHER -> content

\* The non-blocking `select { case r.Unregister <- c: default: }` of the pumps.
TryUnregister(q, c) == IF Len(q) < UnregisterCap THEN Append(q, c) ELSE q

\* r.mutex.Lock() waits until no goroutine holds the mutex for reading.
CanLockWrite == rwReaders = {}

\* r.mutex.RLock() waits while a writer holds or is waiting for the mutex
\* (sync.RWMutex blocks new readers once Lock has been called).
CanLockRead == actorPc \notin {"reg_lock", "unreg_lock"}

\* Goroutine t holds the read lock and is still ranging over r.Clients (a
\* readPump that panicked inside BroadcastOperation holds it but has left).
InsideMap(t) == IF t = Actor THEN TRUE ELSE rpPc[t] # "done" /\ rpPc[t] # "defer"

RoomInit ==
  /\ Clients = {}
  /\ Broadcast = <<>>
  /\ Register = <<>>
  /\ Unregister = <<>>
  /\ rwReaders = {}
  /\ docContent = <<>>
  /\ docVersion = 1
  /\ actorPc = "select"
  /\ actorArg = 0
  /\ actorMsg = UserFrame("none", 0)
  /\ actorTodo = {}
  /\ fatal = FALSE
  /\ Send = [c \in Conns |-> <<>>]
  /\ closeCalls = [c \in Conns |-> 0]
  /\ connClosed = [c \in Conns |-> FALSE]
  /\ hwPc = [c \in Conns |-> "idle"]
  /\ rpPc = [c \in Conns |-> "off"]
  /\ rpOp = [c \in Conns |-> NoOp]
  /\ rpTodo = [c \in Conns |-> {}]
  /\ rpCur = [c \in Conns |-> 0]
  /\ rpLocal = [c \in Conns |-> <<>>]
  /\ wpPc = [c \in Conns |-> "off"]
  /\ opsLeft = MaxOps
  /\ gone = [c \in Conns |-> FALSE]
  /\ leftSent = [c \in Conns |-> 0]
  /\ bcMembers = {}
  /\ bcGot = {}
  /\ docTitle = "t0"
  /\ docLanguage = "l0"
  /\ rpMsg = [c \in Conns |-> NoMsg]
  /\ rpVer = [c \in Conns |-> 0]
  /\ rpGot = [c \in Conns |-> {}]
  /\ rpStoreErr = [c \in Conns |-> FALSE]
  /\ accepted = 0
  /\ acks = [c \in Conns |-> <<>>]
  /\ hInit = <<>>
  /\ hOps = <<>>
  /\ hPrev = <<>>
  /\ hPrevVer = 1
  /\ ident = [c \in Conns |-> NoIdentity]
  /\ hLog = [c \in Conns |-> <<>>]

\* The registry once GetOrCreateRoom(TheRoom) has created the room and
\* started its actor.
RegReady ==
  /\ rooms = [k \in Keys |->
               IF k = TheRoom THEN NewRoom(k, 1, StoredDoc(k)) ELSE NoRoom]
  /\ rmMutex = NoOne
  /\ made = [k \in Keys |-> IF k = TheRoom THEN 1 ELSE 0]
  /\ runs = [k \in Keys |-> IF k = TheRoom THEN 1 ELSE 0]
  /\ uuids = 0
  /\ gcPc = [p \in Callers |-> "idle"]
  /\ gcKey = [p \in Callers |-> 1]
  /\ gcDoc = [p \in Callers |-> NoDoc]
  /\ gcRoom = [p \in Callers |-> NoRoom]
  /\ gcRet = [p \in Callers |-> NoRoom]
  /\ gcErr = [p \in Callers |-> "pending"]

actorVars == <<actorPc, actorArg, actorMsg, actorTodo>>
bcHist == <<bcMembers, bcGot>>
docVars == <<docContent, docVersion>>
queueVars == <<Broadcast, Register, Unregister>>
rpVars == <<rpPc, rpOp, rpTodo, rpCur, rpLocal>>

(***************************************************************************)
(* Room.run (room.go:92-136)                                               *)
(***************************************************************************)

\* room.go:96  case client := <-r.Register
RunTakeRegister ==
  /\ ~fatal
  /\ actorPc = "select"
  /\ Register # <<>>
  /\ actorArg' = Head(Register)
  /\ Register' = Tail(Register)
  /\ actorPc' = "reg_lock"
  /\ UNCHANGED <<Clients, Broadcast, Unregister, rwReaders, docVars, actorMsg,
                 actorTodo, fatal, Send, closeCalls, connClosed, hwPc, rpVars,
                 wpPc, opsLeft, gone, leftSent, bcHist>>
  /\ UNCHANGED <<regVars, ident, hLog, metaVars, seqHist, rpVer, rpGot, accepted>>

\* room.go:98-100  Lock; r.Clients[client.ID] = client; Unlock
RunRegister ==
  /\ ~fatal
  /\ actorPc = "reg_lock"
  /\ CanLockWrite
  /\ Clients' = Clients \cup {actorArg}
  /\ actorPc' = "reg_notify"
  /\ UNCHANGED <<queueVars, rwReaders, docVars, actorArg, actorMsg, actorTodo,
                 fatal, Send, closeCalls, connClosed, hwPc, rpVars, wpPc,
                 opsLeft, gone, leftSent, bcHist>>
  /\ UNCHANGED <<regVars, ident, hLog, metaVars, seqHist, rpVer, rpGot, accepted>>

\* room.go:103, 139-150  broadcastUserJoined: the blocking r.Broadcast <- data
RunNotifyJoined ==
  /\ ~fatal
  /\ actorPc = "reg_notify"
  /\ Len(Broadcast) < BroadcastCap
  /\ Broadcast' = Append(Broadcast, UserFrame("user_joined", actorArg))
  /\ actorPc' = "select"
  /\ actorArg' = 0
  /\ UNCHANGED <<Clients, Register, Unregister, rwReaders, docVars,
                 actorMsg, actorTodo, fatal, Send, closeCalls, connClosed, hwPc,
                 rpVars, wpPc, opsLeft, gone, leftSent, bcHist>>
  /\ UNCHANGED <<regVars, ident, hLog, metaVars, seqHist, rpVer, rpGot, accepted>>

\* room.go:106  case client := <-r.Unregister
RunTakeUnregister ==
  /\ ~fatal
  /\ actorPc = "select"
  /\ Unregister # <<>>
  /\ actorArg' = Head(Unregister)
  /\ Unregister' = Tail(Unregister)
  /\ actorPc' = "unreg_lock"
  /\ UNCHANGED <<Clients, Broadcast, Register, rwReaders, docVars, actorMsg,
                 actorTodo, fatal, Send, closeCalls, connClosed, hwPc, rpVars,
                 wpPc, opsLeft, gone, leftSent, bcHist>>
  /\ UNCHANGED <<regVars, ident, hLog, metaVars, seqHist, rpVer, rpGot, accepted>>

\* room.go:108-113  Lock; if present { delete; close(client.Send) }; Unlock
RunUnregister ==
  /\ ~fatal
  /\ actorPc = "unreg_lock"
  /\ CanLockWrite
  /\ IF actorArg \in Clients
       THEN /\ Clients' = Clients \ {actorArg}
            /\ closeCalls' = [closeCalls EXCEPT ![actorArg] = @ + 1]
            \* close of a closed channel panics, and nothing recovers it here
            /\ fatal' = IsClosed(actorArg)
       ELSE UNCHANGED <<Clients, closeCalls, fatal>>
  /\ gone' = [gone EXCEPT ![actorArg] = TRUE]
  /\ actorPc' = "unreg_notify"
  /\ UNCHANGED <<queueVars, rwReaders, docVars, actorArg, actorMsg, actorTodo,
                 Send, connClosed, hwPc, rpVars, wpPc, opsLeft, leftSent, bcHist>>
  /\ UNCHANGED <<regVars, ident, hLog, metaVars, seqHist, rpVer, rpGot, accepted>>

\* room.go:116, 153-164  broadcastUserLeft: the blocking r.Broadcast <- data
RunNotifyLeft ==
  /\ ~fatal
  /\ actorPc = "unreg_notify"
  /\ Len(Broadcast) < BroadcastCap
  /\ Broadcast' = Append(Broadcast, UserFrame("user_left", actorArg))
  /\ leftSent' = [leftSent EXCEPT ![actorArg] = @ + 1]
  /\ actorPc' = "select"
  /\ actorArg' = 0
  /\ UNCHANGED <<Clients, Register, Unregister, rwReaders, docVars,
                 actorMsg, actorTodo, fatal, Send, closeCalls, connClosed, hwPc,
                 rpVars, wpPc, opsLeft, gone, bcHist>>
  /\ UNCHANGED <<regVars, ident, hLog, metaVars, seqHist, rpVer, rpGot, accepted>>

\* room.go:119-122  case message := <-r.Broadcast; RLock; range r.Clients
RunTakeBroadcast ==
  /\ ~fatal
  /\ actorPc = "select"
  /\ Broadcast # <<>>
  /\ actorMsg' = Head(Broadcast)
  /\ Broadcast' = Tail(Broadcast)
  /\ rwReaders' = rwReaders \cup {Actor}
  /\ actorTodo' = Clients
  /\ bcMembers' = Clients
  /\ bcGot' = {}
  /\ actorPc' = "bcast"
  /\ UNCHANGED <<Clients, Register, Unregister, docVars, actorArg, fatal, Send,
                 closeCalls, connClosed, hwPc, rpVars, wpPc, opsLeft, gone, leftSent>>
  /\ UNCHANGED <<regVars, ident, hLog, metaVars, seqHist, rpVer, rpGot, accepted>>

\* room.go:122-125  the loop produces member c: select { case client.Send <-
\* message: default: }.  A member another goroutine deleted under its own
\* RLock may or may not still be produced (unsynchronised map access).
RunBroadcastSend(c) ==
  /\ ~fatal
  /\ actorPc = "bcast"
  /\ c \in actorTodo
  /\ \/ \* the deleted entry is not produced
        /\ c \notin Clients
        /\ actorTodo' = actorTodo \ {c}
        /\ UNCHANGED <<Send, bcGot, actorPc, actorArg, fatal>>
     \/ \* send on a closed channel: panic in the actor goroutine
        /\ IsClosed(c)
        /\ fatal' = TRUE
        /\ UNCHANGED <<Send, bcGot, actorPc, actorArg, actorTodo>>
     \/ \* the queue has room
        /\ ~IsClosed(c)
        /\ Len(Send[c]) < SendCap
        /\ Send' = [Send EXCEPT ![c] = Append(@, actorMsg)]
        /\ bcGot' = bcGot \cup {c}
        /\ actorTodo' = actorTodo \ {c}
        /\ UNCHANGED <<actorPc, actorArg, fatal>>
     \/ \* the queue is full: default branch
        /\ ~IsClosed(c)
        /\ Len(Send[c]) >= SendCap
        /\ actorArg' = c
        /\ actorPc' = "bcast_close"
        /\ UNCHANGED <<Send, bcGot, actorTodo, fatal>>
  /\ UNCHANGED <<Clients, queueVars, rwReaders, docVars, actorMsg, closeCalls,
                 connClosed, hwPc, rpVars, wpPc, opsLeft, gone,
                 leftSent, bcMembers>>
  /\ UNCHANGED <<regVars, ident, hLog, metaVars, seqHist, rpVer, rpGot, accepted>>

\* room.go:126  close(client.Send)
RunBroadcastClose ==
  /\ ~fatal
  /\ actorPc = "bcast_close"
  /\ closeCalls' = [closeCalls EXCEPT ![actorArg] = @ + 1]
  /\ fatal' = IsClosed(actorArg)
  /\ actorPc' = "bcast_delete"
  /\ UNCHANGED <<Clients, queueVars, rwReaders, docVars, actorArg, actorMsg,
                 actorTodo, Send, connClosed, hwPc, rpVars, wpPc, opsLeft,
                 gone, leftSent, bcHist>>
  /\ UNCHANGED <<regVars, ident, hLog, metaVars, seqHist, rpVer, rpGot, accepted>>

\* room.go:127  delete(r.Clients, client.ID), under the read lock only: with
\* another reader inside the map the runtime may stop the process
\* ("concurrent map iteration and map write").
RunBroadcastDelete ==
  /\ ~fatal
  /\ actorPc = "bcast_delete"
  /\ Clients' = Clients \ {actorArg}
  /\ gone' = [gone EXCEPT ![actorArg] = TRUE]
  /\ actorTodo' = actorTodo \ {actorArg}
  /\ actorPc' = "bcast"
  /\ actorArg' = 0
  /\ \/ fatal' = FALSE
     \/ /\ \E d \in rwReaders \ {Actor} : InsideMap(d)
        /\ fatal' = TRUE
  /\ UNCHANGED <<queueVars, rwReaders, docVars, actorMsg, Send,
                 closeCalls, connClosed, hwPc, rpVars, wpPc, opsLeft, leftSent, bcHist>>
  /\ UNCHANGED <<regVars, ident, hLog, metaVars, seqHist, rpVer, rpGot, accepted>>

\* room.go:130  RUnlock, back to the select
RunBroadcastDone ==
  /\ ~fatal
  /\ actorPc = "bcast"
  /\ actorTodo = {}
  /\ rwReaders' = rwReaders \ {Actor}
  /\ actorPc' = "select"
  /\ bcMembers' = {}
  /\ bcGot' = {}
  /\ actorMsg' = UserFrame("none", 0)
  /\ UNCHANGED <<Clients, queueVars, docVars, actorArg, actorTodo,
                 fatal, Send, closeCalls, connClosed, hwPc, rpVars, wpPc,
                 opsLeft, gone, leftSent>>
  /\ UNCHANGED <<regVars, ident, hLog, metaVars, seqHist, rpVer, rpGot, accepted>>

RunNext ==
  \/ RunTakeRegister
  \/ RunRegister
  \/ RunNotifyJoined
  \/ RunTakeUnregister
  \/ RunUnregister
  \/ RunNotifyLeft
  \/ RunTakeBroadcast
  \/ \E c \in Conns : RunBroadcastSend(c)
  \/ RunBroadcastClose
  \/ RunBroadcastDelete
  \/ RunBroadcastDone

(***************************************************************************)
(* Handlers.HandleWebSocket (handlers.go:38-84)                            *)
(***************************************************************************)

\* handlers.go:39-79  upgrade, GetOrCreateRoom (the room exists), build the
\* Client, go writePump, go readPump
HandleWebSocket(c) ==
  /\ ~fatal
  /\ hwPc[c] = "idle"
  /\ hwPc' = [hwPc EXCEPT ![c] = "register"]
  /\ rpPc' = [rpPc EXCEPT ![c] = "read"]
  /\ wpPc' = [wpPc EXCEPT ![c] = "run"]
  /\ UNCHANGED <<Clients, queueVars, rwReaders, docVars, actorVars, fatal, Send,
                 closeCalls, connClosed, rpOp, rpTodo, rpCur, rpLocal, opsLeft,
                 gone, leftSent, bcHist>>
  /\ UNCHANGED <<regVars, ident, hLog, metaVars, seqHist, rpVer, rpGot, accepted>>

\* handlers.go:82  roomInstance.Register <- client (blocking)
HandleWebSocketRegister(c) ==
  /\ ~fatal
  /\ hwPc[c] = "register"
  /\ Len(Register) < RegisterCap
  /\ Register' = Append(Register, c)
  /\ hwPc' = [hwPc EXCEPT ![c] = "done"]
  /\ UNCHANGED <<Clients, Broadcast, Unregister, rwReaders, docVars, actorVars,
                 fatal, Send, closeCalls, connClosed, rpVars, wpPc, opsLeft,
                 gone, leftSent, bcHist>>
  /\ UNCHANGED <<regVars, ident, hLog, metaVars, seqHist, rpVer, rpGot, accepted>>

(***************************************************************************)
(* Handlers.readPump (handlers.go:87-161) with handleOperation,            *)
(* Room.BroadcastOperation (room.go:167-187) and updateDocumentContent     *)
(***************************************************************************)

\* The deferred cleanup of readPump (handlers.go:89-102): recover,
\* non-blocking r.Unregister <- c, c.Conn.Close()
ReadPumpCleanup(c) ==
  /\ Unregister' = TryUnregister(Unregister, c)
  /\ connClosed' = [connClosed EXCEPT ![c] = TRUE]
  /\ rpPc' = [rpPc EXCEPT ![c] = "done"]

\* handlers.go:113-120  ReadMessage fails (peer gone, deadline, transport
\* closed by the write pump): break, and the deferred cleanup runs
ReadPumpError(c) ==
  /\ ~fatal
  /\ rpPc[c] = "read"
  /\ ReadPumpCleanup(c)
  /\ UNCHANGED <<Clients, Broadcast, Register, rwReaders, docVars, actorVars,
                 fatal, Send, closeCalls, hwPc, rpOp, rpTodo, rpCur, rpLocal,
                 wpPc, opsLeft, gone, leftSent, bcHist>>
  /\ UNCHANGED <<regVars, ident, hLog, metaVars, seqHist, rpVer, rpGot, accepted>>

\* handlers.go:138-140, 215-229  an operation frame arrives and is decoded
ReadPumpOperationStep(c, o) ==
  /\ ~fatal
  /\ rpPc[c] = "read"
  /\ ~connClosed[c]
  /\ opsLeft > 0
  /\ opsLeft' = opsLeft - 1
  /\ rpOp' = [rpOp EXCEPT ![c] = o]
  /\ rpPc' = [rpPc EXCEPT ![c] = "op_rlock"]
  /\ UNCHANGED <<Clients, queueVars, rwReaders, docVars, actorVars, fatal, Send,
                 closeCalls, connClosed, hwPc, rpTodo, rpCur, rpLocal, wpPc,
                 gone, leftSent, bcHist>>
  /\ UNCHANGED <<regVars, ident, hLog, metaVars, rpVer, rpGot, accepted>>

ReadPumpOperation(c, o) ==
  /\ ReadPumpOperationStep(c, o)
  /\ UNCHANGED seqHist

\* room.go:175-177  r.mutex.RLock(); range r.Clients, skipping the sender
BroadcastOperationRLock(c) ==
  /\ ~fatal
  /\ rpPc[c] = "op_rlock"
  /\ CanLockRead
  /\ rwReaders' = rwReaders \cup {c}
  /\ rpTodo' = [rpTodo EXCEPT ![c] = Clients \ {c}]
  /\ rpPc' = [rpPc EXCEPT ![c] = "op_loop"]
  /\ UNCHANGED <<Clients, queueVars, docVars, actorVars, fatal, Send,
                 closeCalls, connClosed, hwPc, rpOp, rpCur, rpLocal, wpPc,
                 opsLeft, gone, leftSent, bcHist>>
  /\ UNCHANGED <<regVars, ident, hLog, metaVars, seqHist, rpVer, rpGot, accepted>>

\* room.go:176-180  the loop produces member d: select { case client.Send <-
\* data: default: }.  A panic is recovered by readPump's deferred function
\* (handlers.go:90), which leaves r.mutex read-locked.
BroadcastOperationSendStep(c, d) ==
  /\ ~fatal
  /\ rpPc[c] = "op_loop"
  /\ d \in rpTodo[c]
  /\ \/ \* the deleted entry is not produced
        /\ d \notin Clients
        /\ rpTodo' = [rpTodo EXCEPT ![c] = @ \ {d}]
        /\ UNCHANGED <<Send, rpPc, rpCur, rpGot>>
     \/ \* send on a closed channel: panic
        /\ IsClosed(d)
        /\ rpPc' = [rpPc EXCEPT ![c] = "defer"]
        /\ UNCHANGED <<Send, rpTodo, rpCur, rpGot>>
     \/ \* the queue has room
        /\ ~IsClosed(d)
        /\ Len(Send[d]) < SendCap
        /\ Send' = [Send EXCEPT ![d] = Append(@, OperationFrame(c, rpOp[c]))]
        /\ rpTodo' = [rpTodo EXCEPT ![c] = @ \ {d}]
        /\ rpGot' = [rpGot EXCEPT ![c] = @ \cup {d}]
        /\ UNCHANGED <<rpPc, rpCur>>
     \/ \* the queue is full: default branch
        /\ ~IsClosed(d)
        /\ Len(Send[d]) >= SendCap
        /\ rpCur' = [rpCur EXCEPT ![c] = d]
        /\ rpPc' = [rpPc EXCEPT ![c] = "op_close"]
        /\ UNCHANGED <<Send, rpTodo, rpGot>>
  /\ UNCHANGED <<Clients, queueVars, rwReaders, docVars, actorVars, fatal,
                 closeCalls, connClosed, hwPc, rpOp, rpLocal, wpPc, opsLeft,
                 gone, leftSent, bcHist>>
  /\ UNCHANGED <<regVars, ident, metaVars, seqHist, rpVer, accepted>>

BroadcastOperationSend(c, d) ==
  BroadcastOperationSendStep(c, d) /\ UNCHANGED hLog

\* the same step where the order of delivery is recorded
BroadcastOperationSendLogged(c, d) ==
  /\ BroadcastOperationSendStep(c, d)
  /\ hLog' = IF Send'[d] # Send[d]
               THEN [hLog EXCEPT ![d] = Append(@, OperationFrame(c, rpOp[c]))]
               ELSE hLog


\* room.go:181  close(client.Send); closing a closed channel panics
BroadcastOperationClose(c) ==
  /\ ~fatal
  /\ rpPc[c] = "op_close"
  /\ closeCalls' = [closeCalls EXCEPT ![rpCur[c]] = @ + 1]
  /\ rpPc' = [rpPc EXCEPT ![c] =
                IF IsClosed(rpCur[c]) THEN "defer" ELSE "op_delete"]
  /\ UNCHANGED <<Clients, queueVars, rwReaders, docVars, actorVars, fatal, Send,
                 connClosed, hwPc, rpOp, rpTodo, rpCur, rpLocal, wpPc, opsLeft,
                 gone, leftSent, bcHist>>
  /\ UNCHANGED <<regVars, ident, hLog, metaVars, seqHist, rpVer, rpGot, accepted>>

\* room.go:182  delete(r.Clients, client.ID), under the read lock only
BroadcastOperationDelete(c) ==
  /\ ~fatal
  /\ rpPc[c] = "op_delete"
  /\ Clients' = Clients \ {rpCur[c]}
  /\ gone' = [gone EXCEPT ![rpCur[c]] = TRUE]
  /\ rpTodo' = [rpTodo EXCEPT ![c] = @ \ {rpCur[c]}]
  /\ rpPc' = [rpPc EXCEPT ![c] = "op_loop"]
  /\ rpCur' = [rpCur EXCEPT ![c] = 0]
  /\ \/ fatal' = FALSE
     \/ /\ \E d \in rwReaders \ {c} : InsideMap(d)
        /\ fatal' = TRUE
  /\ UNCHANGED <<queueVars, rwReaders, docVars, actorVars, Send, closeCalls,
                 connClosed, hwPc, rpOp, rpLocal, wpPc, opsLeft, leftSent, bcHist>>
  /\ UNCHANGED <<regVars, ident, hLog, metaVars, seqHist, rpVer, rpGot, accepted>>

\* room.go:186  RUnlock; handlers.go:235 enters updateDocumentContent
BroadcastOperationDone(c) ==
  /\ ~fatal
  /\ rpPc[c] = "op_loop"
  /\ rpTodo[c] = {}
  /\ rwReaders' = rwReaders \ {c}
  /\ rpPc' = [rpPc EXCEPT ![c] = "upd_read"]
  /\ UNCHANGED <<Clients, queueVars, docVars, actorVars, fatal, Send,
                 closeCalls, connClosed, hwPc, rpOp, rpTodo, rpCur, rpLocal,
                 wpPc, opsLeft, gone, leftSent, bcHist>>
  /\ UNCHANGED <<regVars, ident, hLog, metaVars, seqHist, rpVer, rpGot, accepted>>

\* handlers.go:349, 357  content := room.Document.Content
UpdateDocumentContentRead(c) ==
  /\ ~fatal
  /\ rpPc[c] = "upd_read"
  /\ rpLocal' = [rpLocal EXCEPT ![c] = docContent]
  /\ rpPc' = [rpPc EXCEPT ![c] = "upd_write"]
  /\ rpGot' = [rpGot EXCEPT ![c] = {}]
  /\ UNCHANGED <<Clients, queueVars, rwReaders, docVars, actorVars, fatal, Send,
                 closeCalls, connClosed, hwPc, rpOp, rpTodo, rpCur, wpPc,
                 opsLeft, gone, leftSent, bcHist>>
  /\ UNCHANGED <<regVars, ident, hLog, metaVars, seqHist, rpVer, accepted>>

\* handlers.go:350-364  room.Document.Content = ... (a slice out of range
\* panics before anything is written; a delete that does not fit writes
\* nothing), then the load of room.Document.Version++
UpdateDocumentContentWrite(c) ==
  /\ ~fatal
  /\ rpPc[c] = "upd_write"
  /\ IF UpdatePanics(rpLocal[c], rpOp[c])
       THEN /\ rpPc' = [rpPc EXCEPT ![c] = "defer"]
            /\ rpOp' = [rpOp EXCEPT ![c] = NoOp]
            /\ rpLocal' = [rpLocal EXCEPT ![c] = <<>>]
            /\ UNCHANGED <<docContent, rpVer>>
       ELSE /\ docContent' = IF UpdateWrites(rpLocal[c], rpOp[c])
                               THEN UpdatedContent(rpLocal[c], rpOp[c])
                               ELSE docContent
            /\ rpVer' = [rpVer EXCEPT ![c] = docVersion]
            /\ rpPc' = [rpPc EXCEPT ![c] = "upd_ver"]
            /\ UNCHANGED <<rpOp, rpLocal>>
  /\ UNCHANGED <<Clients, queueVars, rwReaders, actorVars, fatal, Send,
                 closeCalls, connClosed, hwPc, rpTodo, rpCur, docVersion,
                 wpPc, opsLeft, gone, leftSent, bcHist>>
  /\ UNCHANGED <<regVars, ident, hLog, metaVars, seqHist, rpGot, accepted>>

\* handlers.go:364  the store of room.Document.Version++: the increment is a
\* load and a store with no lock around them; updateDocumentContent returns
UpdateDocumentContentVersion(c) ==
  /\ ~fatal
  /\ rpPc[c] = "upd_ver"
  /\ docVersion' = rpVer[c] + 1
  /\ accepted' = IF UpdateWrites(rpLocal[c], rpOp[c])
                   THEN accepted + 1 ELSE accepted
  /\ rpVer' = [rpVer EXCEPT ![c] = 0]
  /\ rpOp' = [rpOp EXCEPT ![c] = NoOp]
  /\ rpLocal' = [rpLocal EXCEPT ![c] = <<>>]
  /\ rpPc' = [rpPc EXCEPT ![c] = "read"]
  /\ UNCHANGED <<Clients, queueVars, rwReaders, actorVars, fatal, Send,
                 closeCalls, connClosed, hwPc, rpTodo, rpCur, docContent,
                 wpPc, opsLeft, gone, leftSent, bcHist>>
  /\ UNCHANGED <<regVars, ident, hLog, metaVars, seqHist, rpGot>>

\* handlers.go:89-102  a panic inside the loop was recovered: the frames of
\* the handlers are unwound (their locals are gone) and the deferred cleanup
\* runs
ReadPumpRecover(c) ==
  /\ ~fatal
  /\ rpPc[c] = "defer"
  /\ ReadPumpCleanup(c)
  /\ rpGot' = [rpGot EXCEPT ![c] = {}]
  /\ rpOp' = [rpOp EXCEPT ![c] = NoOp]
  /\ rpTodo' = [rpTodo EXCEPT ![c] = {}]
  /\ rpCur' = [rpCur EXCEPT ![c] = 0]
  /\ UNCHANGED <<Clients, Broadcast, Register, rwReaders, docVars, actorVars,
                 fatal, Send, closeCalls, hwPc, rpLocal,
                 wpPc, opsLeft, gone, leftSent, bcHist>>
  /\ UNCHANGED <<regVars, ident, hLog, metaVars, seqHist, rpVer, accepted>>

(***************************************************************************)
(* Handlers.writePump (handlers.go:164-212)                                *)
(***************************************************************************)

\* handlers.go:181-198  a frame is taken from c.Send and written; the write
\* fails when the transport has been closed
WritePumpWrite(c) ==
  /\ ~fatal
  /\ wpPc[c] = "run"
  /\ Send[c] # <<>>
  /\ Send' = [Send EXCEPT ![c] = Tail(@)]
  /\ wpPc' = [wpPc EXCEPT ![c] = IF connClosed[c] THEN "err_unreg" ELSE "run"]
  /\ UNCHANGED <<Clients, queueVars, rwReaders, docVars, actorVars, fatal,
                 closeCalls, connClosed, hwPc, rpVars, opsLeft, gone,
                 leftSent, bcHist>>
  /\ UNCHANGED <<regVars, ident, hLog, metaVars, seqHist, rpVer, rpGot, accepted>>

\* handlers.go:183-187  c.Send is closed and drained: write the close frame,
\* return
WritePumpSendClosed(c) ==
  /\ ~fatal
  /\ wpPc[c] = "run"
  /\ Send[c] = <<>>
  /\ IsClosed(c)
  /\ wpPc' = [wpPc EXCEPT ![c] = "defer"]
  /\ UNCHANGED <<Clients, queueVars, rwReaders, docVars, actorVars, fatal, Send,
                 closeCalls, connClosed, hwPc, rpVars, opsLeft, gone,
                 leftSent, bcHist>>
  /\ UNCHANGED <<regVars, ident, hLog, metaVars, seqHist, rpVer, rpGot, accepted>>

\* handlers.go:200-209  the ticker fires and the ping cannot be written
\* (transport closed or peer unreachable; a ping that is written changes
\* nothing): non-blocking r.Unregister <- c, return
WritePumpPingError(c) ==
  /\ ~fatal
  /\ wpPc[c] = "run"
  /\ Unregister' = TryUnregister(Unregister, c)
  /\ wpPc' = [wpPc EXCEPT ![c] = "defer"]
  /\ UNCHANGED <<Clients, Broadcast, Register, rwReaders, docVars, actorVars,
                 fatal, Send, closeCalls, connClosed, hwPc, rpVars, opsLeft,
                 gone, leftSent, bcHist>>
  /\ UNCHANGED <<regVars, ident, hLog, metaVars, seqHist, rpVer, rpGot, accepted>>

\* handlers.go:190-197  the write failed: non-blocking r.Unregister <- c, return
WritePumpErrUnregister(c) ==
  /\ ~fatal
  /\ wpPc[c] = "err_unreg"
  /\ Unregister' = TryUnregister(Unregister, c)
  /\ wpPc' = [wpPc EXCEPT ![c] = "defer"]
  /\ UNCHANGED <<Clients, Broadcast, Register, rwReaders, docVars, actorVars,
                 fatal, Send, closeCalls, connClosed, hwPc, rpVars, opsLeft,
                 gone, leftSent, bcHist>>
  /\ UNCHANGED <<regVars, ident, hLog, metaVars, seqHist, rpVer, rpGot, accepted>>

\* handlers.go:167-177  the deferred cleanup: non-blocking r.Unregister <- c,
\* c.Conn.Close()
WritePumpExit(c) ==
  /\ ~fatal
  /\ wpPc[c] = "defer"
  /\ Unregister' = TryUnregister(Unregister, c)
  /\ connClosed' = [connClosed EXCEPT ![c] = TRUE]
  /\ wpPc' = [wpPc EXCEPT ![c] = "done"]
  /\ UNCHANGED <<Clients, Broadcast, Register, rwReaders, docVars, actorVars,
                 fatal, Send, closeCalls, hwPc, rpVars, opsLeft, gone,
                 leftSent, bcHist>>
  /\ UNCHANGED <<regVars, ident, hLog, metaVars, seqHist, rpVer, rpGot, accepted>>

ConnNext(c) ==
  \/ HandleWebSocket(c)
  \/ HandleWebSocketRegister(c)
  \/ ReadPumpError(c)
  \/ \E o \in OpInputs : ReadPumpOperation(c, o)
  \/ BroadcastOperationRLock(c)
  \/ \E d \in Conns : BroadcastOperationSend(c, d)
  \/ BroadcastOperationClose(c)
  \/ BroadcastOperationDelete(c)
  \/ BroadcastOperationDone(c)
  \/ UpdateDocumentContentRead(c)
  \/ UpdateDocumentContentWrite(c)
  \/ UpdateDocumentContentVersion(c)
  \/ ReadPumpRecover(c)
  \/ WritePumpWrite(c)
  \/ WritePumpSendClosed(c)
  \/ WritePumpPingError(c)
  \/ WritePumpErrUnregister(c)
  \/ WritePumpExit(c)

RoomNext == RunNext \/ \E c \in Conns : ConnNext(c)

Init == RegReady /\ RoomInit

Next == RoomNext

Spec == Init /\ [][Next]_vars

\* The steps the program takes on its own once they are enabled: every step
\* of the actor and of the pumps, reads and pings on a transport that a pump
\* has closed (they fail).  What is left to the clients and the network is
\* not among them: a new connection, an inbound frame, a failure of an open
\* transport.
SysNext ==
  \/ RunNext
  \/ \E c \in Conns :
       \/ HandleWebSocketRegister(c)
       \/ connClosed[c] /\ ReadPumpError(c)
       \/ BroadcastOperationRLock(c)
       \/ \E d \in Conns : BroadcastOperationSend(c, d)
       \/ BroadcastOperationClose(c)
       \/ BroadcastOperationDelete(c)
       \/ BroadcastOperationDone(c)
       \/ UpdateDocumentContentRead(c)
       \/ UpdateDocumentContentWrite(c)
       \/ UpdateDocumentContentVersion(c)
       \/ ReadPumpRecover(c)
       \/ WritePumpWrite(c)
       \/ WritePumpSendClosed(c)
       \/ connClosed[c] /\ WritePumpPingError(c)
       \/ WritePumpErrUnregister(c)
       \/ WritePumpExit(c)

\* Nothing is left for the program to do until a client or the network acts.
Quiescent == ~ENABLED SysNext

InQueue(q, c) == \E i \in 1..Len(q) : q[i] = c

\* The actor has processed the Register signal of connection c
\* (HandleWebSocket sends exactly one).
Joined(c) ==
  /\ hwPc[c] = "done"
  /\ ~InQueue(Register, c)
  /\ ~(actorPc = "reg_lock" /\ actorArg = c)

\* Connection c has left and nothing of its leaving is still under way: both
\* pumps have exited, and no Unregister signal for it is queued or in the
\* actor's hands.
LeftSettled(c) ==
  /\ rpPc[c] = "done"
  /\ wpPc[c] = "done"
  /\ ~InQueue(Unregister, c)
  /\ ~(actorPc = "unreg_lock" /\ actorArg = c)

\* Goroutine t is between close(client.Send) and delete(r.Clients, ...) for c.
Killing(t, c) ==
  IF t = Actor
    THEN actorPc = "bcast_delete" /\ actorArg = c
    ELSE rpPc[t] = "op_delete" /\ rpCur[t] = c

\* The actor has left the loop of the Broadcast case: it ran to the end, or
\* the process died inside it.
BroadcastEnded ==
  /\ actorPc \in {"bcast", "bcast_close", "bcast_delete"}
  /\ fatal \/ (actorPc = "bcast" /\ actorTodo = {})

(***************************************************************************)
(* The other frame handlers of readPump: a malformed operation frame,      *)
(* handleDocUpdate with updateDocumentMetadata, handleSnapshot with        *)
(* updateDocumentSnapshot (handlers.go:215-313, 369-395).                  *)
(* Room.BroadcastMetadataUpdate, Room.BroadcastSnapshotUpdate and          *)
(* Room.SendAck are called by the handlers but are not part of room.go as  *)
(* given; they are modelled after the specification: a non-blocking        *)
(* enqueue on the outbound queues with the drop-and-kill fallback.         *)
(***************************************************************************)

\* what no step of these handlers touches
idleVars == <<regVars, queueVars, rwReaders, actorVars, fatal, hwPc, rpOp,
              rpTodo, rpCur, rpLocal, wpPc, leftSent, bcHist, hInit, hPrev,
              hPrevVer, hLog>>

\* The malformed operation frames: no "operation" object at all, or an
\* object in which a field is missing or has the wrong type.
MalformedInputs == {"no_operation", "bad_field"}

\* handlers.go:215-229  handleOperation on a malformed frame: without the
\* object the `, ok` assertion fails and the handler returns; with a bad
\* field the unchecked assertion (.(string), .(float64)) panics
HandleOperationMalformed(c, kind) ==
  /\ ~fatal
  /\ rpPc[c] = "read"
  /\ ~connClosed[c]
  /\ opsLeft > 0
  /\ opsLeft' = opsLeft - 1
  /\ rpPc' = [rpPc EXCEPT ![c] = IF kind = "no_operation" THEN "read" ELSE "defer"]
  /\ UNCHANGED <<Clients, docVars, Send, closeCalls, connClosed, gone, rpVer,
                 rpGot, accepted, metaVars>>
  /\ UNCHANGED <<idleVars, ident>>
  /\ hOps' = Append(hOps, [conn |-> c, op |-> [type |-> kind]])

\* The document_update and snapshot frames the clients send.
DocUpdateInputs ==
  {[type |-> "document_update", title |-> "t1", language |-> "l1",
    content |-> <<>>, seq |-> 0]}
SnapshotInputs ==
  {[type |-> "snapshot", title |-> "", language |-> "",
    content |-> <<"x">>, seq |-> 7]}

\* the outbound frames of the two handlers and the ack
MetadataFrame(c, m) ==
  [type |-> "document_update", user |-> c, title |-> m.title, language |-> m.language]
SnapshotFrame(c, m) == [type |-> "snapshot", user |-> c, content |-> m.content]
AckFrame(n) == [type |-> "ack", event |-> "snapshot", seq |-> n]

\* The members a frame from c is enqueued for, and those dropped for a full
\* queue: every member but the originator whose queue is open.
EnqueuedFor(c) ==
  {d \in Clients \ {c} : ~IsClosed(d) /\ Len(Send[d]) < SendCap}
KilledFor(c) ==
  {d \in Clients \ {c} : ~IsClosed(d) /\ Len(Send[d]) >= SendCap}

\* Broadcast of frame f to all members except the originator c.
BroadcastExcept(c, f) ==
  /\ Send' = [d \in DOMAIN Send |->
                IF d \in EnqueuedFor(c) THEN Append(Send[d], f) ELSE Send[d]]
  /\ closeCalls' = [d \in DOMAIN closeCalls |->
                      IF d \in KilledFor(c) THEN closeCalls[d] + 1 ELSE closeCalls[d]]
  /\ Clients' = Clients \ KilledFor(c)
  /\ gone' = [d \in DOMAIN gone |-> gone[d] \/ d \in KilledFor(c)]
  /\ rpGot' = [rpGot EXCEPT ![c] = EnqueuedFor(c)]

\* handlers.go:143-144, 257-275  a document_update frame: decode it, build
\* the MetadataUpdate, assign Document.Title and Document.Language
HandleDocUpdate(c, m) ==
  /\ ~fatal
  /\ rpPc[c] = "read"
  /\ ~connClosed[c]
  /\ opsLeft > 0
  /\ opsLeft' = opsLeft - 1
  /\ rpMsg' = [rpMsg EXCEPT ![c] = m]
  /\ docTitle' = m.title
  /\ docLanguage' = m.language
  /\ rpStoreErr' = [rpStoreErr EXCEPT ![c] = FALSE]
  /\ rpPc' = [rpPc EXCEPT ![c] = "du_bcast"]
  /\ UNCHANGED <<Clients, docVars, Send, closeCalls, connClosed, gone, rpVer,
                 rpGot, accepted, acks>>
  /\ UNCHANGED <<idleVars, ident>>
  /\ hOps' = Append(hOps, [conn |-> c, op |-> m])

\* handlers.go:277  client.Room.BroadcastMetadataUpdate(update, client.ID)
BroadcastMetadataUpdate(c) ==
  /\ ~fatal
  /\ rpPc[c] = "du_bcast"
  /\ BroadcastExcept(c, MetadataFrame(c, rpMsg[c]))
  /\ rpPc' = [rpPc EXCEPT ![c] = "du_ver"]
  /\ UNCHANGED <<docVars, connClosed, opsLeft, rpVer, accepted, metaVars>>
  /\ UNCHANGED <<idleVars, ident, hOps>>

\* handlers.go:370  the load of room.Document.Version++
UpdateDocumentMetadataLoad(c) ==
  /\ ~fatal
  /\ rpPc[c] = "du_ver"
  /\ rpVer' = [rpVer EXCEPT ![c] = docVersion]
  /\ rpPc' = [rpPc EXCEPT ![c] = "du_store"]
  /\ UNCHANGED <<Clients, docVars, Send, closeCalls, connClosed, opsLeft, gone,
                 rpGot, accepted, metaVars>>
  /\ UNCHANGED <<idleVars, ident, hOps>>

\* handlers.go:370  the store of room.Document.Version++
UpdateDocumentMetadataStore(c) ==
  /\ ~fatal
  /\ rpPc[c] = "du_store"
  /\ docVersion' = rpVer[c] + 1
  /\ rpVer' = [rpVer EXCEPT ![c] = 0]
  /\ rpPc' = [rpPc EXCEPT ![c] = "du_persist"]
  /\ UNCHANGED <<Clients, docContent, Send, closeCalls, connClosed, opsLeft,
                 gone, rpGot, accepted, metaVars>>
  /\ UNCHANGED <<idleVars, ident, hOps>>

\* a store failure that takes the increment back
VersionAfterStoreRollback(v, ok) == IF ok THEN v ELSE v - 1

\* handlers.go:377-381, 390-394  the cached version once Store.UpdateDocument
\* has returned: the error branch only logs and returns
VersionAfterStore(v, ok) == v

\* handlers.go:371-381  Store.UpdateDocument succeeds (ok) or fails: a
\* failure is logged; either way updateDocumentMetadata and handleDocUpdate
\* return
UpdateDocumentMetadataPersist(c, ok) ==
  /\ ~fatal
  /\ rpPc[c] = "du_persist"
  /\ docVersion' = VersionAfterStore(docVersion, ok)
  /\ rpStoreErr' = [rpStoreErr EXCEPT ![c] = ~ok]
  /\ accepted' = accepted + 1
  /\ rpMsg' = [rpMsg EXCEPT ![c] = NoMsg]
  /\ rpGot' = [rpGot EXCEPT ![c] = {}]
  /\ rpPc' = [rpPc EXCEPT ![c] = "read"]
  /\ UNCHANGED <<Clients, docContent, Send, closeCalls, connClosed, opsLeft, gone,
                 rpVer, docTitle, docLanguage, acks>>
  /\ UNCHANGED <<idleVars, ident, hOps>>

\* handlers.go:146-153, 282-301  a snapshot frame: decode it, build the
\* Snapshot, assign Document.Content
HandleSnapshot(c, m) ==
  /\ ~fatal
  /\ rpPc[c] = "read"
  /\ ~connClosed[c]
  /\ opsLeft > 0
  /\ opsLeft' = opsLeft - 1
  /\ rpMsg' = [rpMsg EXCEPT ![c] = m]
  /\ docContent' = m.content
  /\ rpStoreErr' = [rpStoreErr EXCEPT ![c] = FALSE]
  /\ rpPc' = [rpPc EXCEPT ![c] = "snap_ver"]
  /\ UNCHANGED <<Clients, docVersion, Send, closeCalls, connClosed, gone, rpVer,
                 rpGot, accepted, docTitle, docLanguage, acks>>
  /\ UNCHANGED <<idleVars, ident>>
  /\ hOps' = Append(hOps, [conn |-> c, op |-> m])

\* handlers.go:385  the load of room.Document.Version++
UpdateDocumentSnapshotLoad(c) ==
  /\ ~fatal
  /\ rpPc[c] = "snap_ver"
  /\ rpVer' = [rpVer EXCEPT ![c] = docVersion]
  /\ rpPc' = [rpPc EXCEPT ![c] = "snap_store"]
  /\ UNCHANGED <<Clients, docVars, Send, closeCalls, connClosed, opsLeft, gone,
                 rpGot, accepted, metaVars>>
  /\ UNCHANGED <<idleVars, ident, hOps>>

\* handlers.go:385  the store of room.Document.Version++
UpdateDocumentSnapshotStore(c) ==
  /\ ~fatal
  /\ rpPc[c] = "snap_store"
  /\ docVersion' = rpVer[c] + 1
  /\ rpVer' = [rpVer EXCEPT ![c] = 0]
  /\ rpPc' = [rpPc EXCEPT ![c] = "snap_persist"]
  /\ UNCHANGED <<Clients, docContent, Send, closeCalls, connClosed, opsLeft,
                 gone, rpGot, accepted, metaVars>>
  /\ UNCHANGED <<idleVars, ident, hOps>>

\* handlers.go:386-394  Store.UpdateDocument succeeds (ok) or fails: a
\* failure is logged; either way updateDocumentSnapshot returns
UpdateDocumentSnapshotPersist(c, ok) ==
  /\ ~fatal
  /\ rpPc[c] = "snap_persist"
  /\ rpStoreErr' = [rpStoreErr EXCEPT ![c] = ~ok]
  /\ rpPc' = [rpPc EXCEPT ![c] = "snap_bcast"]
  /\ docVersion' = VersionAfterStore(docVersion, ok)
  /\ UNCHANGED <<Clients, docContent, Send, closeCalls, connClosed, opsLeft, gone,
                 rpVer, rpGot, accepted, docTitle, docLanguage, rpMsg, acks>>
  /\ UNCHANGED <<idleVars, ident, hOps>>

\* handlers.go:305  client.Room.BroadcastSnapshotUpdate(snapshot, client.ID)
BroadcastSnapshotUpdate(c) ==
  /\ ~fatal
  /\ rpPc[c] = "snap_bcast"
  /\ BroadcastExcept(c, SnapshotFrame(c, rpMsg[c]))
  /\ rpPc' = [rpPc EXCEPT ![c] = "snap_ack"]
  /\ UNCHANGED <<docVars, connClosed, opsLeft, rpVer, accepted, metaVars>>
  /\ UNCHANGED <<idleVars, ident, hOps>>

\* an ack that does not copy the sequence number
AckSeqZero(m) == 0

\* handlers.go:310  Seq: msg.Seq
AckSeq(m) == m.seq

\* Room.SendAck: the ack goes to the originating connection only, by a
\* non-blocking enqueue: on a full queue the connection is dropped, and a
\* connection that is no longer a member gets nothing.
SendAck(c, n) ==
  IF c \notin Clients \/ IsClosed(c)
    THEN UNCHANGED <<Send, acks, closeCalls, Clients, gone>>
    ELSE IF Len(Send[c]) < SendCap
      THEN /\ Send' = [Send EXCEPT ![c] = Append(@, AckFrame(n))]
           /\ acks' = [acks EXCEPT ![c] = Append(@, n)]
           /\ UNCHANGED <<closeCalls, Clients, gone>>
      ELSE /\ closeCalls' = [closeCalls EXCEPT ![c] = @ + 1]
           /\ Clients' = Clients \ {c}
           /\ gone' = [gone EXCEPT ![c] = TRUE]
           /\ UNCHANGED <<Send, acks>>

\* handlers.go:307-312  client.Room.SendAck(client, room.Ack{...}, client.ID);
\* handleSnapshot returns
HandleSnapshotAck(c) ==
  /\ ~fatal
  /\ rpPc[c] = "snap_ack"
  /\ SendAck(c, AckSeq(rpMsg[c]))
  /\ accepted' = accepted + 1
  /\ rpMsg' = [rpMsg EXCEPT ![c] = NoMsg]
  /\ rpGot' = [rpGot EXCEPT ![c] = {}]
  /\ rpPc' = [rpPc EXCEPT ![c] = "read"]
  /\ UNCHANGED <<docVars, connClosed, opsLeft, rpVer, docTitle, docLanguage,
                 rpStoreErr>>
  /\ UNCHANGED <<idleVars, ident, hOps>>

\* The frames readPump drops: not valid JSON, or a type that is none of the
\* cases of the switch (a missing or non-string type included).
DroppedInputs == {"bad_json", "unknown_type"}

\* a read pump that gives up on a frame it cannot dispatch
AfterDroppedFrameExits == "defer"

\* handlers.go:126-129, 156-158  `continue` after a parse error; the default
\* case only logs and the loop goes round
AfterDroppedFrame == "read"

\* handlers.go:124-129, 131, 156-158  a frame that is dropped
ReadPumpDropFrame(c, kind) ==
  /\ ~fatal
  /\ rpPc[c] = "read"
  /\ ~connClosed[c]
  /\ opsLeft > 0
  /\ opsLeft' = opsLeft - 1
  /\ rpPc' = [rpPc EXCEPT ![c] = AfterDroppedFrame]
  /\ hOps' = Append(hOps, [conn |-> c, op |-> [type |-> kind]])
  /\ UNCHANGED <<Clients, docVars, Send, closeCalls, connClosed, gone, rpVer,
                 rpGot, accepted, metaVars>>
  /\ UNCHANGED <<idleVars, ident>>

PongFrame == [type |-> "pong"]

\* handlers.go:141  case "ping": the read pump is about to send the pong
ReadPumpPing(c) ==
  /\ ~fatal
  /\ rpPc[c] = "read"
  /\ ~connClosed[c]
  /\ opsLeft > 0
  /\ opsLeft' = opsLeft - 1
  /\ rpPc' = [rpPc EXCEPT ![c] = "ping_send"]
  /\ hOps' = Append(hOps, [conn |-> c, op |-> [type |-> "ping"]])
  /\ UNCHANGED <<Clients, docVars, Send, closeCalls, connClosed, gone, rpVer,
                 rpGot, accepted, metaVars>>
  /\ UNCHANGED <<idleVars, ident>>

\* handlers.go:143  c.Send <- []byte(`{"type":"pong"}`): a plain channel
\* send, which waits while the queue is full and panics on a closed queue
ReadPumpPongSend(c) ==
  /\ ~fatal
  /\ rpPc[c] = "ping_send"
  /\ IF IsClosed(c)
       THEN /\ rpPc' = [rpPc EXCEPT ![c] = "defer"]
            /\ UNCHANGED Send
       ELSE /\ Len(Send[c]) < SendCap
            /\ Send' = [Send EXCEPT ![c] = Append(@, PongFrame)]
            /\ rpPc' = [rpPc EXCEPT ![c] = "read"]
  /\ UNCHANGED <<Clients, docVars, closeCalls, connClosed, opsLeft, gone, rpVer,
                 rpGot, accepted, metaVars>>
  /\ UNCHANGED <<idleVars, ident, hOps>>

\* a field that is absent from the frame, or is not a string
Missing == "<missing>"

\* The init frames: id and username each present as a string or not.
InitInputs ==
  {[type |-> "init", id |-> i, username |-> u] :
     i \in {"i1", Missing}, u \in {"n1", Missing}}

\* handlers.go:239-240  v, ok := msg[key].(string): the zero value on failure
AsString(v) == IF v = Missing THEN "" ELSE v
WellFormedInit(m) == m.id # Missing /\ m.username # Missing

UserConnectedFrame(m) ==
  [type |-> "user_connected", id |-> AsString(m.id), username |-> AsString(m.username)]

\* handlers.go:238-252  handleInit: the two assertions, the log line for a
\* bad format (without a return), the assignment of ClientID and Username
HandleInit(c, m) ==
  /\ ~fatal
  /\ rpPc[c] = "read"
  /\ ~connClosed[c]
  /\ opsLeft > 0
  /\ opsLeft' = opsLeft - 1
  /\ ident' = [ident EXCEPT ![c] = [clientID |-> AsString(m.id),
                                    username |-> AsString(m.username)]]
  /\ rpMsg' = [rpMsg EXCEPT ![c] = m]
  /\ rpPc' = [rpPc EXCEPT ![c] = "init_bcast"]
  /\ hOps' = Append(hOps, [conn |-> c, op |-> m])
  /\ UNCHANGED <<Clients, docVars, Send, closeCalls, connClosed, gone, rpVer,
                 rpGot, accepted, docTitle, docLanguage, rpStoreErr, acks>>
  /\ UNCHANGED idleVars

\* handlers.go:254  client.Room.BroadcastUserConnected(initok): the identity
\* confirmation goes to every member; handleInit returns
BroadcastUserConnected(c) ==
  /\ ~fatal
  /\ rpPc[c] = "init_bcast"
  /\ Send' = [d \in DOMAIN Send |->
                IF d \in EnqueuedFor(NoOne)
                  THEN Append(Send[d], UserConnectedFrame(rpMsg[c])) ELSE Send[d]]
  /\ closeCalls' = [d \in DOMAIN closeCalls |->
                      IF d \in KilledFor(NoOne) THEN closeCalls[d] + 1 ELSE closeCalls[d]]
  /\ Clients' = Clients \ KilledFor(NoOne)
  /\ gone' = [d \in DOMAIN gone |-> gone[d] \/ d \in KilledFor(NoOne)]
  /\ rpMsg' = [rpMsg EXCEPT ![c] = NoMsg]
  /\ rpPc' = [rpPc EXCEPT ![c] = "read"]
  /\ UNCHANGED <<docVars, connClosed, opsLeft, rpVer, rpGot, accepted, docTitle,
                 docLanguage, rpStoreErr, acks>>
  /\ UNCHANGED <<idleVars, ident, hOps>>

(***************************************************************************)
(* Operations dispatched one after another: the members are registered,    *)
(* the cached content is any short text, and a read pump takes the next    *)
(* operation frame only when no handler is running.                        *)
(***************************************************************************)
Chars == {"a", "b"}
Contents == UNION {[1..n -> Chars] : n \in 0..MaxLen}

\* Position and Length are whatever ints the frame carries.
SeqOpInputs ==
  {[type |-> "insert", position |-> p, content |-> t, length |-> 0] :
     p \in -1..(MaxLen + 1), t \in {<<"a", "b">>, <<"c">>}}
  \cup
  {[type |-> "delete", position |-> p, content |-> <<>>, length |-> n] :
     p \in -1..(MaxLen + 1), n \in 0..(MaxLen + 1)}

\* The room with the connections in M registered and their pumps running,
\* `content` cached, and n inbound frames still to come.
MembersInit(M, slow, content, n) ==
  /\ Clients = M
  /\ Broadcast = <<>>
  /\ Register = <<>>
  /\ Unregister = <<>>
  /\ rwReaders = {}
  /\ docContent = content
  /\ docVersion = 1
  /\ actorPc = "select"
  /\ actorArg = 0
  /\ actorMsg = UserFrame("none", 0)
  /\ actorTodo = {}
  /\ fatal = FALSE
  /\ Send = [c \in M |-> IF c \in slow
                             THEN <<UserFrame("user_joined", Cardinality(M))>>
                             ELSE <<>>]
  /\ closeCalls = [c \in M |-> 0]
  /\ connClosed = [c \in M |-> FALSE]
  /\ hwPc = [c \in M |-> "done"]
  /\ rpPc = [c \in M |-> "read"]
  /\ rpOp = [c \in M |-> NoOp]
  /\ rpTodo = [c \in M |-> {}]
  /\ rpCur = [c \in M |-> 0]
  /\ rpLocal = [c \in M |-> <<>>]
  /\ wpPc = [c \in M |-> "run"]
  /\ opsLeft = n
  /\ gone = [c \in M |-> FALSE]
  /\ leftSent = [c \in M |-> 0]
  /\ bcMembers = {}
  /\ bcGot = {}
  /\ docTitle = "t0"
  /\ docLanguage = "l0"
  /\ rpMsg = [c \in M |-> NoMsg]
  /\ rpVer = [c \in M |-> 0]
  /\ rpGot = [c \in M |-> {}]
  /\ rpStoreErr = [c \in M |-> FALSE]
  /\ accepted = 0
  /\ acks = [c \in M |-> <<>>]
  /\ hInit = content
  /\ hOps = <<>>
  /\ hPrev = content
  /\ hPrevVer = 1
  /\ ident = [c \in M |-> NoIdentity]
  /\ hLog = [c \in M |-> <<>>]

\* No connection is inside a frame handler.
NoHandlerRunning ==
  \A d \in DOMAIN rpPc : rpPc[d] \in {"off", "read", "defer", "done"}

\* handlers.go:138-140  an operation frame, recorded in the order of dispatch
ReadPumpOperationLogged(c, o) ==
  /\ ReadPumpOperationStep(c, o)
  /\ hOps' = Append(hOps, [conn |-> c, op |-> o])
  /\ UNCHANGED <<hInit, hPrev, hPrevVer>>

\* handlers.go:138-140  the next operation frame, taken when the frame before
\* it has been handled to the end
ReadPumpOperationInTurn(c, o) ==
  /\ NoHandlerRunning
  /\ ReadPumpOperationStep(c, o)
  /\ hOps' = Append(hOps, [conn |-> c, op |-> o])
  /\ hPrev' = docContent
  /\ hPrevVer' = docVersion
  /\ UNCHANGED hInit

SeqInit == RegReady /\ \E content \in Contents : MembersInit(Conns, {}, content, MaxSeqOps)

SeqNext ==
  \E c \in Conns :
    \/ \E o \in SeqOpInputs : ReadPumpOperationInTurn(c, o)
    \/ BroadcastOperationRLock(c)
    \/ \E d \in Conns : BroadcastOperationSend(c, d)
    \/ BroadcastOperationClose(c)
    \/ BroadcastOperationDelete(c)
    \/ BroadcastOperationDone(c)
    \/ UpdateDocumentContentRead(c)
    \/ UpdateDocumentContentWrite(c)
    \/ UpdateDocumentContentVersion(c)
    \/ ReadPumpRecover(c)
    \/ WritePumpWrite(c)

SeqSpec == SeqInit /\ [][SeqNext]_vars

\* The last dispatched operation has been handled to the end (its read pump
\* is back at ReadMessage).
LastDone ==
  /\ hOps # <<>>
  /\ NoHandlerRunning
  /\ rpPc[hOps[Len(hOps)].conn] = "read"

LastOp == hOps[Len(hOps)].op

\* The frame handlers of several members running concurrently: every member
\* is registered with both pumps running, the first member's write pump may
\* not yet have written the user_joined frame of the last registration, and
\* the clients send MaxFrames frames of any type between them.
Members == 1..NumMembers

PipelineOpInputs == {[type |-> "insert", position |-> 0, content |-> <<"a">>, length |-> 0]}

PipelineInit ==
  /\ RegReady
  /\ \E slow \in {{}, {1}} : MembersInit(Members, slow, <<>>, MaxFrames)

PipelineNext ==
  \E c \in Members :
    \/ \E o \in PipelineOpInputs : ReadPumpOperationLogged(c, o)
    \/ \E kind \in MalformedInputs : HandleOperationMalformed(c, kind)
    \/ \E m \in DocUpdateInputs : HandleDocUpdate(c, m)
    \/ \E m \in SnapshotInputs : HandleSnapshot(c, m)
    \/ \E kind \in DroppedInputs : ReadPumpDropFrame(c, kind)
    \/ ReadPumpPing(c)
    \/ ReadPumpPongSend(c)
    \/ \E m \in InitInputs : HandleInit(c, m)
    \/ BroadcastUserConnected(c)
    \/ BroadcastOperationRLock(c)
    \/ \E d \in Members : BroadcastOperationSend(c, d)
    \/ BroadcastOperationClose(c)
    \/ BroadcastOperationDelete(c)
    \/ BroadcastOperationDone(c)
    \/ UpdateDocumentContentRead(c)
    \/ UpdateDocumentContentWrite(c)
    \/ UpdateDocumentContentVersion(c)
    \/ BroadcastMetadataUpdate(c)
    \/ UpdateDocumentMetadataLoad(c)
    \/ UpdateDocumentMetadataStore(c)
    \/ \E ok \in BOOLEAN : UpdateDocumentMetadataPersist(c, ok)
    \/ UpdateDocumentSnapshotLoad(c)
    \/ UpdateDocumentSnapshotStore(c)
    \/ \E ok \in BOOLEAN : UpdateDocumentSnapshotPersist(c, ok)
    \/ BroadcastSnapshotUpdate(c)
    \/ HandleSnapshotAck(c)
    \/ ReadPumpRecover(c)
    \/ WritePumpWrite(c)

PipelineSpec == PipelineInit /\ [][PipelineNext]_vars

\* Operations dispatched concurrently: as the sequential dispatch, but a read
\* pump takes its next operation frame whatever the other read pump is
\* doing.
RaceOpInputs ==
  {[type |-> "insert", position |-> 0, content |-> <<"c">>, length |-> 0],
   [type |-> "insert", position |-> 1, content |-> <<"c">>, length |-> 0],
   [type |-> "insert", position |-> 0, content |-> <<"a", "b">>, length |-> 0],
   [type |-> "delete", position |-> 0, content |-> <<>>, length |-> 1]}

RaceInit ==
  /\ RegReady
  /\ \E content \in Contents : MembersInit(Conns, {}, content, MaxSeqOps)

RaceNext ==
  \E c \in Conns :
    \/ \E o \in RaceOpInputs : ReadPumpOperationLogged(c, o)
    \/ BroadcastOperationRLock(c)
    \/ \E d \in Conns : BroadcastOperationSend(c, d)
    \/ BroadcastOperationClose(c)
    \/ BroadcastOperationDelete(c)
    \/ BroadcastOperationDone(c)
    \/ UpdateDocumentContentRead(c)
    \/ UpdateDocumentContentWrite(c)
    \/ UpdateDocumentContentVersion(c)
    \/ WritePumpWrite(c)

RaceSpec == RaceInit /\ [][RaceNext]_vars

\* The order of delivery: NumPeers members, every one registered with both
\* pumps running (the first member's write pump may not yet have written the
\* user_joined frame of the last registration), send operation frames
\* concurrently, and each frame enqueued for a member is recorded in that
\* member's log.
Peers == 1..NumPeers

OrderInit ==
  /\ RegReady
  /\ \E slow \in {{}, {1}} : MembersInit(Peers, slow, <<>>, MaxFrames)

OrderNext ==
  \E c \in Peers :
    \/ \E o \in PipelineOpInputs : ReadPumpOperation(c, o)
    \/ BroadcastOperationRLock(c)
    \/ \E d \in Peers : BroadcastOperationSendLogged(c, d)
    \/ BroadcastOperationClose(c)
    \/ BroadcastOperationDelete(c)
    \/ BroadcastOperationDone(c)
    \/ UpdateDocumentContentRead(c)
    \/ UpdateDocumentContentWrite(c)
    \/ UpdateDocumentContentVersion(c)
    \/ ReadPumpRecover(c)
    \/ WritePumpWrite(c)

OrderSpec == OrderInit /\ [][OrderNext]_vars

\* The life and death of a connection: the connections attach, register,
\* send ping frames and fail, with the actor running.  A read pump takes the
\* steps that are its own once they are enabled: the read that fails on a
\* transport a pump has closed (handlers.go:113-120), the pong send
\* (handlers.go:143) and the deferred cleanup (handlers.go:89-102).
ReadPumpSteps(c) ==
  \/ connClosed[c] /\ ReadPumpError(c)
  \/ ReadPumpPongSend(c)
  \/ ReadPumpRecover(c)

\* A write pump takes the frames of c.Send (handlers.go:181-198), and its
\* ticker fires (handlers.go:200-209): the ping fails on a closed transport.
WritePumpSteps(c) ==
  \/ WritePumpWrite(c)
  \/ WritePumpSendClosed(c)
  \/ connClosed[c] /\ WritePumpPingError(c)
  \/ WritePumpErrUnregister(c)
  \/ WritePumpExit(c)

PumpInit == RegReady /\ RoomInit

PumpNext ==
  \/ RunNext
  \/ \E c \in Conns :
       \/ HandleWebSocket(c)
       \/ HandleWebSocketRegister(c)
       \/ ReadPumpError(c)
       \/ ReadPumpPing(c)
       \/ ReadPumpPongSend(c)
       \/ ReadPumpRecover(c)
       \/ WritePumpWrite(c)
       \/ WritePumpSendClosed(c)
       \/ WritePumpPingError(c)
       \/ WritePumpErrUnregister(c)
       \/ WritePumpExit(c)

\* The Go scheduler runs every goroutine that can take a step: the actor,
\* the request handler of each connection and each of its two pumps.  A new
\* connection, an inbound frame and the failure of an open transport are
\* left to the clients and the network.
PumpFairness ==
  /\ WF_vars(RunNext)
  /\ \A c \in Conns :
       /\ WF_vars(HandleWebSocketRegister(c))
       /\ WF_vars(ReadPumpSteps(c))
       /\ WF_vars(WritePumpSteps(c))

PumpSpec == PumpInit /\ [][PumpNext]_vars /\ PumpFairness

\* The registry alone: concurrent GetOrCreateRoom calls on an empty registry,
\* no connection attached yet.
RegistryInit == RegInit /\ RoomInit

RegistryNext == RegNext

RegistrySpec == RegistryInit /\ [][RegistryNext]_vars

(***************************************************************************)
(* C1: for any interleaving of concurrent GetOrCreateRoom calls with the   *)
(* same key, at most one Room is ever stored under that key, exactly one   *)
(* actor loop is started for it, and every call that succeeds returns that *)
(* same Room.                                                              *)
(***************************************************************************)
C1_OneRoomPerKey ==
  /\ \A k \in Keys :
       /\ made[k] <= 1
       /\ runs[k] <= 1
       /\ (rooms[k] # NoRoom => made[k] = 1 /\ runs[k] = 1)
  /\ \A p \in Callers :
       gcErr[p] = "nil" =>
         /\ gcRet[p] # NoRoom
         /\ gcRet[p] = rooms[gcKey[p]]
         /\ runs[gcKey[p]] = 1

\* Two different callers asked for the same key and both got a Room back.
C1_Witness ==
  \E p, q \in Callers :
    /\ p # q
    /\ gcKey[p] = gcKey[q]
    /\ gcErr[p] = "nil"
    /\ gcErr[q] = "nil"
    /\ gcPc[p] = "done" /\ gcPc[q] = "done"

(***************************************************************************)
(* C2: when the actor processes a Broadcast frame, a member whose queue is *)
(* full is removed from membership and its queue is closed during that     *)
(* same broadcast, and every other member receives the frame.              *)
(***************************************************************************)
C2_FullMemberKilledOthersReceive ==
  BroadcastEnded =>
    \A c \in bcMembers : c \in bcGot \/ (c \notin Clients /\ IsClosed(c))

(***************************************************************************)
(* C3: whenever the actor takes a Broadcast frame, the members it is about *)
(* to deliver to are exactly the connections whose Register it processed   *)
(* and that were not removed since; no join and no leave is lost: no       *)
(* member is a connection that has left for good, and no registered        *)
(* connection that was neither unregistered nor killed is missing.         *)
(***************************************************************************)
C3_MembershipIsCurrentlyRegistered ==
  [][RunTakeBroadcast =>
       \A c \in Conns :
         /\ c \in Clients => Joined(c) /\ ~LeftSettled(c)
         /\ Joined(c) /\ ~gone[c] => c \in Clients]_vars

(***************************************************************************)
(* C4: the actor loop never terminates and never becomes permanently       *)
(* blocked: the process does not die, and whenever the program has nothing *)
(* left to do the actor is back at its select (it is not stuck sending to  *)
(* r.Broadcast, nor waiting for r.mutex).                                  *)
(***************************************************************************)
C4_ActorReturnsToSelect ==
  /\ ~fatal
  /\ Quiescent => actorPc = "select"

(***************************************************************************)
(* C5: for every connection, close(client.Send) is executed at most once,  *)
(* and exactly once by the time the connection has left the membership.    *)
(***************************************************************************)
C5_SendClosedExactlyOnce ==
  \A c \in Conns :
    /\ closeCalls[c] <= 1
    /\ Joined(c) /\ c \notin Clients => closeCalls[c] = 1

(***************************************************************************)
(* C6: in every state a goroutine reading the membership can observe (it   *)
(* holds r.mutex for reading and is inside the map, and is not itself the  *)
(* one removing the member), no member has a closed outbound queue.        *)
(***************************************************************************)
C6_NoClosedQueueInMembership ==
  \A t \in rwReaders :
    InsideMap(t) =>
      \A c \in Clients : IsClosed(c) => Killing(t, c)

(***************************************************************************)
(* C7: once the actor has processed an Unregister for a connection, or has *)
(* removed it for a full queue, the connection is never a member again.    *)
(***************************************************************************)
C7_UnregisteredIsTerminal ==
  \A c \in Conns : gone[c] => c \notin Clients

(***************************************************************************)
(* C8: when a connection's read pump has exited, the connection ends up    *)
(* absent from the membership with its outbound queue closed: once the     *)
(* program has nothing left to do, that is the case.                       *)
(***************************************************************************)
C8_ReadPumpExitUnregisters ==
  \A c \in Conns :
    rpPc[c] = "done" /\ Quiescent => c \notin Clients /\ IsClosed(c)

(***************************************************************************)
(* C9: for each connection at most one user_left is broadcast, however     *)
(* many Unregister signals reach the actor, and none for a connection that *)
(* is not a member (one the actor never registered).                       *)
(***************************************************************************)
C9_OneUserLeftPerLeave ==
  \A c \in Conns :
    /\ leftSent[c] <= 1
    /\ leftSent[c] = 1 => Joined(c)

\* The frame f is the snapshot of the given content and member list.
IsSnapshotOf(f, content, users) ==
  /\ f.type = "snapshot"
  /\ f.content = content
  /\ f.users = users

(***************************************************************************)
(* C10: when the actor has processed Register for a connection (it has     *)
(* inserted it and is about to announce it), the connection's queue holds  *)
(* a snapshot frame with the cached document content and the membership.   *)
(***************************************************************************)
C10_SnapshotOnRegister ==
  actorPc = "reg_notify" =>
    \E i \in 1..Len(Send[actorArg]) :
      IsSnapshotOf(Send[actorArg][i], docContent, Clients)

(***************************************************************************)
(* C11: the user_joined event of a registering connection is enqueued for  *)
(* the other members only: no connection ever finds in its outbound queue  *)
(* the user_joined frame that announces itself.                            *)
(***************************************************************************)
C11_UserJoinedExcludesJoiner ==
  \A c \in Conns :
    \A i \in 1..Len(Send[c]) :
      Send[c][i].type = "user_joined" => Send[c][i].user # c

\* t is c with s put in front of the character at index p (0-based), stated
\* character by character.
IsSplice(t, c, p, s) ==
  /\ Len(t) = Len(c) + Len(s)
  /\ \A i \in 1..Len(t) :
       t[i] = IF i <= p THEN c[i]
              ELSE IF i <= p + Len(s) THEN s[i - p]
              ELSE c[i - Len(s)]

\* t is c without the n characters that start at index p (0-based).
IsCut(t, c, p, n) ==
  /\ Len(t) = Len(c) - n
  /\ \A i \in 1..Len(t) : t[i] = IF i <= p THEN c[i] ELSE c[i + n]

(***************************************************************************)
(* C12: an insert at position p with content s turns the cached content c  *)
(* into c[0..p) + s + c[p..] when 0 <= p < len(c), and into c + s when     *)
(* p >= len(c) (p = len(c) and p > len(c) alike).                          *)
(***************************************************************************)
C12_InsertSplicesOrAppends ==
  (LastDone /\ LastOp.type = "insert" /\ LastOp.position >= 0) =>
    IF LastOp.position < Len(hPrev)
      THEN IsSplice(docContent, hPrev, LastOp.position, LastOp.content)
      ELSE IsSplice(docContent, hPrev, Len(hPrev), LastOp.content)

\* An insert beyond the end of the text and then an insert in the middle of
\* it have both been applied.
C12_Witness ==
  /\ LastDone
  /\ Len(hOps) = 2
  /\ hOps[1].op.type = "insert"
  /\ hOps[1].op.position > Len(hInit)
  /\ LastOp.type = "insert"
  /\ 0 < LastOp.position
  /\ LastOp.position < Len(hPrev)

(***************************************************************************)
(* C13: a delete with position + length > len(content) is a no-op: once it *)
(* has been handled the cached content and the version are what they were  *)
(* when it was dispatched.                                                 *)
(***************************************************************************)
C13_DeleteOutOfRangeIsNoOp ==
  ( /\ LastDone
    /\ LastOp.type = "delete"
    /\ LastOp.position >= 0
    /\ LastOp.length >= 0
    /\ LastOp.position + LastOp.length > Len(hPrev) ) =>
    /\ docContent = hPrev
    /\ docVersion = hPrevVer

(***************************************************************************)
(* C14: a delete with 0 <= position, 0 <= length and position + length <=  *)
(* len(content) removes exactly the `length` characters from `position`.   *)
(***************************************************************************)
C14_DeleteRemovesRange ==
  ( /\ LastDone
    /\ LastOp.type = "delete"
    /\ LastOp.position >= 0
    /\ LastOp.length >= 0
    /\ LastOp.position + LastOp.length <= Len(hPrev) ) =>
    IsCut(docContent, hPrev, LastOp.position, LastOp.length)

\* One character out of the middle of a three-character text has been
\* deleted.
C14_Witness ==
  /\ LastDone
  /\ LastOp.type = "delete"
  /\ LastOp.position = 1
  /\ LastOp.length = 1
  /\ Len(hPrev) = 3

\* What the operation is to do to content c: an insert puts its text in
\* front of index position (at the end when there is no such index), a
\* delete that fits takes its range out.
Expected(c, o) ==
  IF o.type = "insert"
    THEN LET q == IF o.position < Len(c) THEN o.position ELSE Len(c)
         IN  [i \in 1..(Len(c) + Len(o.content)) |->
                IF i <= q THEN c[i]
                ELSE IF i <= q + Len(o.content) THEN o.content[i - q]
                ELSE c[i - Len(o.content)]]
    ELSE [i \in 1..(Len(c) - o.length) |->
            IF i <= o.position THEN c[i] ELSE c[i + o.length]]

\* The operation is one the document accepts when its content is c.
Accepts(c, o) ==
  /\ o.position >= 0
  /\ o.type = "delete" => o.length >= 0 /\ o.position + o.length <= Len(c)

RECURSIVE ExpectedAfter(_)
\* The content after the first k dispatched operations.
ExpectedAfter(k) ==
  IF k = 0 THEN hInit ELSE Expected(ExpectedAfter(k - 1), hOps[k].op)

AllAccepted ==
  \A k \in 1..Len(hOps) : Accepts(ExpectedAfter(k - 1), hOps[k].op)

C15_VersionCountsMutations ==
  [][/\ docVersion' >= docVersion
     /\ NoHandlerRunning' => docVersion' = 1 + accepted']_vars


\* The operation broadcast of c has ended: BroadcastOperation returned, or it
\* panicked inside its loop (the read lock is still held when the deferred
\* function of readPump runs).
OperationBroadcastEnded(c) ==
  \/ rpPc[c] = "upd_read"
  \/ rpPc[c] = "defer" /\ c \in rwReaders

\* C17: when the broadcast of an operation frame from connection A has ended,
\* the outbound frame (the operation's kind, position, content and length,
\* stamped with A's id) has been enqueued for every member other than A whose
\* queue is open, and no connection ever holds an operation frame stamped
\* with its own id.
C17_OperationReachesOthers ==
  \A c \in DOMAIN rpPc :
    /\ OperationBroadcastEnded(c) =>
         \A d \in Clients \ {c} : IsClosed(d) \/ d \in rpGot[c]
    /\ \A i \in 1..Len(Send[c]) :
         Send[c][i].type = "operation" =>
           Send[c][i].user # c /\ Send[c][i].op \in PipelineOpInputs


\* C18: a malformed operation frame (the operation object absent, or a field
\* of it missing or of the wrong type) aborts that frame only: the step that
\* handles it leaves the read pump at its next read, the connection in the
\* membership set as it was, and content and version unchanged.
C18_MalformedOperationAbortsFrameOnly ==
  [][\A c \in DOMAIN rpPc : \A kind \in MalformedInputs :
       HandleOperationMalformed(c, kind) =>
         /\ rpPc'[c] = "read"
         /\ Clients' = Clients
         /\ docContent' = docContent
         /\ docVersion' = docVersion]_vars


\* Every member other than c whose queue is open holds, or has held, the
\* frame the handler of c broadcast.
BroadcastReachedOthers(c) ==
  \A d \in Clients \ {c} : IsClosed(d) \/ d \in rpGot[c]

\* C19: a failed persistence update during a metadata or snapshot update
\* rolls nothing back. The step in which Store.UpdateDocument fails leaves
\* the cached title, language and content at the new values and the version
\* incremented, the read pump goes on and the originating connection stays
\* open, and the update is broadcast to the other members all the same
\* (before the store call for a metadata update, after it for a snapshot).
C19_PersistFailureKeepsCache ==
  [][\A c \in DOMAIN rpPc :
       /\ (rpPc[c] = "du_persist" /\ rpPc'[c] # "du_persist" /\ rpStoreErr'[c]) =>
            /\ docTitle' = rpMsg[c].title /\ docLanguage' = rpMsg[c].language
            /\ docContent' = docContent
            /\ docVersion' = docVersion /\ docVersion' > 1
            /\ rpPc'[c] = "read" /\ connClosed'[c] = connClosed[c]
            /\ BroadcastReachedOthers(c)
       /\ (rpPc[c] = "snap_persist" /\ rpPc'[c] # "snap_persist" /\ rpStoreErr'[c]) =>
            /\ docContent' = docContent
            /\ docTitle' = docTitle /\ docLanguage' = docLanguage
            /\ docVersion' = docVersion /\ docVersion' > 1
            /\ rpPc'[c] = "snap_bcast" /\ connClosed'[c] = connClosed[c]
       /\ (rpPc[c] = "snap_bcast" /\ rpPc'[c] # "snap_bcast" /\ rpStoreErr[c]) =>
            /\ BroadcastReachedOthers(c)'
            /\ UNCHANGED <<docContent, docVersion, docTitle, docLanguage>>
       /\ (rpPc[c] = "snap_ack" /\ rpPc'[c] # "snap_ack" /\ rpStoreErr[c]) =>
            /\ rpPc'[c] = "read" /\ connClosed'[c] = connClosed[c]
            /\ UNCHANGED <<docContent, docVersion, docTitle, docLanguage>>]_vars

\* Member 1's metadata update and member 2's snapshot update both failed to
\* persist and both handlers have returned: the cache holds the new title,
\* language and content and a raised version, both connections are open,
\* and member 3 holds one of the two broadcast frames.
C19_Witness ==
  /\ rpStoreErr[1] /\ rpStoreErr[2]
  /\ rpPc[1] = "read" /\ rpPc[2] = "read"
  /\ docTitle = "t1" /\ docLanguage = "l1" /\ docContent = <<"x">>
  /\ docVersion = 3
  /\ ~connClosed[1] /\ ~connClosed[2]
  /\ 3 \in Clients
  /\ Send[3] # <<>>
  /\ Send[3][1].type \in {"document_update", "snapshot"}
  /\ acks[2] = <<7>>


\* handleSnapshot of c makes its SendAck call in this step.
AckStep(c) == rpPc[c] = "snap_ack" /\ rpPc'[c] # "snap_ack"

\* The outbound queue of c can take one more frame.
CanEnqueue(c) == c \in Clients /\ ~IsClosed(c) /\ Len(Send[c]) < SendCap

C22_ErrorRegistersNothing ==
  [][\A p \in Callers :
       (gcErr'[p] = "err" /\ gcPc'[p] # gcPc[p]) =>
         /\ rooms' = rooms /\ made' = made /\ runs' = runs
         /\ rooms'[gcKey[p]] = NoRoom
         /\ runs'[gcKey[p]] = 0
         /\ gcPc'[p] = "done" => gcRet'[p] = NoRoom]_vars

\* A call for key 1 has returned an error, nothing is under key 1, and
\* another call has stored a Room under key 2.
C22_Witness ==
  \E p \in Callers :
    /\ gcPc[p] = "done" /\ gcErr[p] = "err" /\ gcKey[p] = 1
    /\ gcRet[p] = NoRoom
    /\ rooms[1] = NoRoom /\ runs[1] = 0
    /\ rooms[2] # NoRoom


\* C29: for every room in the registry the cached Document's id equals the
\* room key (the id the metadata and snapshot pipelines address the store
\* by), also when the document was created because the key was not found.
C29_DocumentIdIsRoomKey ==
  \A k \in Keys :
    rooms[k] # NoRoom => rooms[k].Document = StoredDoc(rooms[k].ID)


\* C30: applying an operation with any integer position and length,
\* negative ones included, completes without a fault: the step of
\* updateDocumentContent that applies it does not end in a panic (the read
\* pump goes on and the membership is as before), and an operation that
\* cannot be applied leaves the cached content unchanged.
C30_ApplyNeverFaults ==
  [][\A c \in DOMAIN rpPc :
       (rpPc[c] = "upd_write" /\ rpPc'[c] # "upd_write") =>
         /\ rpPc'[c] # "defer"
         /\ Clients' = Clients
         /\ ~UpdateWrites(rpLocal[c], rpOp[c]) => docContent' = docContent]_vars


\* C26: the membership set is modified only by steps of the Room Actor loop:
\* every step that inserts into r.Clients or deletes from it is a step of
\* Room.run, never one of a read pump or a write pump.
C26_MembershipChangedByActorOnly ==
  [][Clients' # Clients => RunNext]_vars


\* C23: every enqueue onto an outbound queue is non-blocking and none is made
\* on a closed queue: a read pump that is to enqueue its pong reply finds
\* its queue open and with room, so it neither waits nor sends on a closed
\* channel.
C23_EnqueueNeverBlocks ==
  \A c \in DOMAIN rpPc :
    rpPc[c] = "ping_send" => ~IsClosed(c) /\ Len(Send[c]) < SendCap

\* handlers.go:371-375  the db.DocumentUpdate of updateDocumentMetadata
MetadataStoreUpdate(c) ==
  [title |-> rpMsg[c].title, language |-> rpMsg[c].language, content |-> docContent]

\* C24: a document_update frame with string title and language from
\* connection A replaces the cached title and language with the frame's
\* values, increments the cached version exactly once, issues one store
\* update carrying the new title and language with the current cached
\* content, and is broadcast to every member except A.
C24_DocUpdatePipeline ==
  [][\A c \in DOMAIN rpPc :
       /\ (rpPc[c] = "read" /\ rpPc'[c] = "du_bcast") =>
            docTitle' = rpMsg'[c].title /\ docLanguage' = rpMsg'[c].language
       /\ (rpPc[c] = "du_bcast" /\ rpPc'[c] # "du_bcast") =>
            /\ c \notin rpGot'[c]
            /\ \A d \in Clients' \ {c} : IsClosed(d) \/ d \in rpGot'[c]
       /\ (rpPc[c] = "du_store" /\ rpPc'[c] # "du_store") =>
            docVersion' = docVersion + 1
       /\ (rpPc[c] = "du_persist" /\ rpPc'[c] # "du_persist") =>
            /\ MetadataStoreUpdate(c) =
                 [title |-> docTitle, language |-> docLanguage, content |-> docContent]
            /\ docVersion' = docVersion
            /\ rpPc'[c] = "read"]_vars

\* C25: a frame that is not valid JSON, or whose type is none of init,
\* operation, ping, document_update, snapshot, presence_user, is dropped:
\* the step that takes it leaves the membership set, the cached document,
\* the version and all outbound queues unchanged, and the read pump is at
\* its next read.
C25_UnrecognizedFrameDropped ==
  [][\A c \in DOMAIN rpPc : \A kind \in DroppedInputs :
       ReadPumpDropFrame(c, kind) =>
         /\ Clients' = Clients
         /\ UNCHANGED <<docContent, docVersion, docTitle, docLanguage>>
         /\ Send' = Send /\ closeCalls' = closeCalls
         /\ connClosed' = connClosed
         /\ rpPc'[c] = "read"]_vars

\* Member 1 sent a frame that is not JSON, member 2 then one of an unknown
\* type; both read pumps are at their next read and nothing else happened.
C25_Witness ==
  /\ Len(hOps) = 2
  /\ hOps[1] = [conn |-> 1, op |-> [type |-> "bad_json"]]
  /\ hOps[2] = [conn |-> 2, op |-> [type |-> "unknown_type"]]
  /\ rpPc[1] = "read" /\ rpPc[2] = "read"
  /\ ~connClosed[1] /\ ~connClosed[2]
  /\ Clients = Members
  /\ docContent = <<>> /\ docVersion = 1 /\ docTitle = "t0"

\* C28: an init frame whose id or username is missing or not a string is
\* dropped as a whole: the step that takes it leaves the connection's bound
\* identity (ClientID and Username) unchanged, and the read pump is at its
\* next read, so that no identity confirmation is broadcast.
C28_BadInitDropped ==
  [][\A c \in DOMAIN rpPc : \A m \in InitInputs :
       (HandleInit(c, m) /\ ~WellFormedInit(m)) =>
         /\ ident'[c] = ident[c]
         /\ rpPc'[c] = "read"]_vars


\* C21: the room-wide broadcasts are totally ordered: two different frames
\* that were both enqueued for the same two members were enqueued for both
\* in the same relative order.
C21_BroadcastsTotallyOrdered ==
  \A a, b \in DOMAIN hLog :
    \A i1, i2 \in 1..Len(hLog[a]) : \A j1, j2 \in 1..Len(hLog[b]) :
      ( /\ hLog[a][i1] = hLog[b][j1]
        /\ hLog[a][i2] = hLog[b][j2]
        /\ hLog[a][i1] # hLog[a][i2] ) => (i1 < i2 <=> j1 < j2)


\* Two operations have been dispatched and both handlers have returned.
TwoOpsDone ==
  /\ Len(hOps) = 2
  /\ NoHandlerRunning
  /\ rpPc[hOps[1].conn] = "read" /\ rpPc[hOps[2].conn] = "read"

\* the two serial results of the two dispatched operations
SerialResults ==
  {Expected(Expected(hInit, hOps[1].op), hOps[2].op),
   Expected(Expected(hInit, hOps[2].op), hOps[1].op)}

\* the results in which one operation was applied to the content the other
\* started from, and the other's write is lost
LostUpdateResults ==
  {Expected(hInit, hOps[1].op), Expected(hInit, hOps[2].op)}

\* C27: content mutation is not serialized through the Room Actor. Two
\* operations applied by read pumps end either in one of their two serial
\* results or in the result of one of them alone on the initial content
\* (the other one is lost); the witness is the reachable state in which
\* the final content is neither serial result.
C27_ConcurrentOperationsMayBeLost ==
  TwoOpsDone => docContent \in SerialResults \cup LostUpdateResults

\* Two operations from two different connections have been handled and the
\* cached content is the result of neither serial order.
C27_Witness ==
  /\ TwoOpsDone
  /\ hOps[1].conn # hOps[2].conn
  /\ hOps[1].op.type = "insert" /\ hOps[2].op.type = "insert"
  /\ docContent \notin SerialResults

\* Both pumps of connection c have returned and its transport is closed.
PumpsEnded(c) == rpPc[c] = "done" /\ wpPc[c] = "done" /\ connClosed[c]

\* C31: once either pump of a connection has exited, the other pump
\* eventually exits too and the transport ends closed (or the process has
\* died, which ends every goroutine), whether or not an Unregister signal
\* was delivered.
C31_DeadConnectionPumpsExit ==
  \A c \in Conns :
    (rpPc[c] = "done" \/ wpPc[c] = "done") ~> (fatal \/ PumpsEnded(c))

====
